---- MODULE Spec2Model ----
(***************************************************************************)
(* Interpretation pipeline of the visualization backend:                   *)
(*   services/rule_interpreter.py  (rule engine),                          *)
(*   services/image_service.py     (diagram and image synthesis),          *)
(*   services/llm_service.py       (model call, normalizer, orchestrator), *)
(*   services/config.py            (behaviour flags, tier table).          *)
(* Commands are text; Python values are tagged records (JSON-like).        *)
(***************************************************************************)
EXTENDS Integers, Sequences, FiniteSets, TLC

VARIABLES
    command,          \* the request text
    AI_IMAGE_FIRST,   \* config.py flags, read once from the environment
    AI_DISABLE_RULES,
    AI_REQUIRE,
    OPENAI_API_KEY,   \* TRUE when the credential is set
    IMAGE_MODEL,      \* image_service.IMAGE_MODEL
    tier_config,      \* the row get_tier_config returned
    pc,               \* position inside interpret_with_source
    last_error,       \* <<>> is None, <<m>> is the message m
    routing_hint,     \* <<>> is None, <<h>> the hint handed to the model call
    calls,            \* history of the run: functions entered and backend requests
    result,           \* <<>> until the orchestrator returns, then <<[spec, source, error]>>
    raised,           \* <<>>, or <<e>> when exception e left interpret_with_source
    raw_spec,         \* the payload the primary model returned, or the one handed to
                      \* normalize_spec on its own
    wiki_found,       \* the subjects the image resolver finds a picture for
    norm_out,         \* <<>>, then <<outcome of normalize_spec(raw_spec)>>
    renorm_out,       \* <<>>, then <<outcome of normalize_spec on that result>>
    raw_after,        \* <<>>, then <<the payload as normalize_spec(raw_spec) left it>>
    intent,           \* <<>>, then <<the routing locals computed from the command>>
    rule_out,         \* <<>>, then <<outcome of one rule handler on the command>>
    fallback_out,     \* <<>>, then <<subject and spec of the naive fallback on the command>>
    row,              \* the user's row in the database
    chat,             \* number of chat messages stored in the database
    limit,            \* ai_requests_per_day of the user's tier, -1 is unlimited
    req               \* the visualize requests in flight, each with its own session

\* the variables of the runs of normalize_spec on its own
normalizer == <<raw_spec, wiki_found, norm_out, renorm_out, raw_after>>

\* the variables of the runs of single functions on a command
\* the variables of the visualize endpoint
endpoint == <<row, chat, limit, req>>

units == <<intent, rule_out, fallback_out, endpoint>>

vars == <<command, AI_IMAGE_FIRST, AI_DISABLE_RULES, AI_REQUIRE, OPENAI_API_KEY,
          IMAGE_MODEL, tier_config, pc, last_error, routing_hint, calls, result, raised,
          normalizer, units>>

-----------------------------------------------------------------------------
(* Bounds of the model *)

\* words per command
MaxWords == 2

-----------------------------------------------------------------------------
(* Python values *)

None == [t |-> "null", v |-> 0]
S(s) == [t |-> "str", v |-> s]
N(n) == [t |-> "int", v |-> n]
B(b) == [t |-> "bool", v |-> b]
\* a float n/d, d > 0
F(n, d) == [t |-> "float", v |-> <<n, d>>]
L(q) == [t |-> "list", v |-> q]
D(r) == [t |-> "dict", v |-> r]
EmptyDict == D(<<>>)

\* bool(v)
Truthy(j) ==
    CASE j.t = "null" -> FALSE
      [] j.t = "str" -> j.v # ""
      [] j.t = "int" -> j.v # 0
      [] j.t = "bool" -> j.v
      [] j.t = "float" -> j.v[1] # 0
      [] j.t = "list" -> Len(j.v) > 0
      [] j.t = "dict" -> DOMAIN j.v # {}

\* d.get(k) and d.get(k, default) of a dict d
GetOr(d, k, default) == IF k \in DOMAIN d.v THEN d.v[k] ELSE default
Get(d, k) == GetOr(d, k, None)
Has(d, k) == k \in DOMAIN d.v

\* a or b
Or(a, b) == IF Truthy(a) THEN a ELSE b

\* v == "text"
EqStr(j, s) == j.t = "str" /\ j.v = s

\* merge of two dict bodies, the right one winning
Merge(r1, r2) ==
    [k \in (DOMAIN r1) \cup (DOMAIN r2) |-> IF k \in DOMAIN r2 THEN r2[k] ELSE r1[k]]

-----------------------------------------------------------------------------
(* Text *)

Char(s, i) == IF i >= 1 /\ i <= Len(s) THEN SubSeq(s, i, i) ELSE ""

\* k in s
Contains(s, k) ==
    \E i \in 1..(Len(s) + 1 - Len(k)) : SubSeq(s, i, i + Len(k) - 1) = k

\* s[i-1:j], 1-based and clipped to the text
Slice(s, i, j) ==
    SubSeq(s, IF i < 1 THEN 1 ELSE i, IF j > Len(s) THEN Len(s) ELSE j)

\* any(k in text for k in kws)
AnyIn(text, kws) == \E k \in kws : Contains(text, k)

StartsWith(s, p) == Len(p) <= Len(s) /\ SubSeq(s, 1, Len(p)) = p

UpperLetters == "ABCDEFGHIJKLMNOPQRSTUVWXYZ"
LowerLetters == "abcdefghijklmnopqrstuvwxyz"

LowerChar(c) ==
    IF \E i \in 1..26 : Char(UpperLetters, i) = c
    THEN Char(LowerLetters, CHOOSE i \in 1..26 : Char(UpperLetters, i) = c)
    ELSE c

UpperChar(c) ==
    IF \E i \in 1..26 : Char(LowerLetters, i) = c
    THEN Char(UpperLetters, CHOOSE i \in 1..26 : Char(LowerLetters, i) = c)
    ELSE c

RECURSIVE MapLower(_, _)
MapLower(s, i) == IF i > Len(s) THEN "" ELSE LowerChar(Char(s, i)) \o MapLower(s, i + 1)

\* s.lower()
Lower(s) == MapLower(s, 1)

IsSpace(c) == c \in {" ", "\t", "\n", "\r"}

RECURSIVE SkipSpaces(_, _)
\* first index >= i of s that holds no whitespace (Len(s) + 1 when there is none)
SkipSpaces(s, i) ==
    IF i <= Len(s) /\ IsSpace(Char(s, i)) THEN SkipSpaces(s, i + 1) ELSE i

RECURSIVE SkipSpacesBack(_, _)
SkipSpacesBack(s, i) ==
    IF i >= 1 /\ IsSpace(Char(s, i)) THEN SkipSpacesBack(s, i - 1) ELSE i

\* s.strip()
Strip(s) == SubSeq(s, SkipSpaces(s, 1), SkipSpacesBack(s, Len(s)))

RECURSIVE ReplaceFrom(_, _, _, _)
ReplaceFrom(s, old, new, i) ==
    IF i > Len(s) THEN ""
    ELSE IF i + Len(old) - 1 <= Len(s) /\ SubSeq(s, i, i + Len(old) - 1) = old
         THEN new \o ReplaceFrom(s, old, new, i + Len(old))
         ELSE Char(s, i) \o ReplaceFrom(s, old, new, i + 1)

\* s.replace(old, new), old non-empty
Replace(s, old, new) == ReplaceFrom(s, old, new, 1)

RECURSIVE RunEnd(_, _, _)
\* last index of the run of characters of set that starts at i (i - 1 when empty)
RunEnd(s, i, set) ==
    IF i <= Len(s) /\ Char(s, i) \in set THEN RunEnd(s, i + 1, set) ELSE i - 1

RECURSIVE RunEndNot(_, _, _)
\* last index of the run of characters outside set that starts at i
RunEndNot(s, i, set) ==
    IF i <= Len(s) /\ Char(s, i) \notin set THEN RunEndNot(s, i + 1, set) ELSE i - 1

Min(set) == CHOOSE m \in set : \A n \in set : m <= n

\* int() of the rational a/b, b > 0: truncation toward zero
TruncDiv(a, b) == IF a >= 0 THEN a \div b ELSE -((-a) \div b)

\* a function's outcome: a returned value, or an exception leaving it
Ret(v) == [exc |-> "", val |-> v]
Raise(e) == [exc |-> e, val |-> None]

-----------------------------------------------------------------------------
(* services/rule_interpreter.py *)

Digits == "0123456789"
DigitSet == {Char(Digits, i) : i \in 1..10}
DigitVal(c) == (CHOOSE i \in 1..10 : Char(Digits, i) = c) - 1

RECURSIVE CountChar(_, _, _)
CountChar(s, c, i) ==
    IF i > Len(s) THEN 0
    ELSE (IF Char(s, i) = c THEN 1 ELSE 0) + CountChar(s, c, i + 1)

RECURSIVE DigitsValue(_, _, _)
\* the integer the digits of s spell, points skipped
DigitsValue(s, i, acc) ==
    IF i > Len(s) THEN acc
    ELSE IF Char(s, i) \in DigitSet
         THEN DigitsValue(s, i + 1, 10 * acc + DigitVal(Char(s, i)))
         ELSE DigitsValue(s, i + 1, acc)

RECURSIVE Pow10(_)
Pow10(k) == IF k <= 0 THEN 1 ELSE 10 * Pow10(k - 1)

\* float(body) for a text over the characters - 0-9 . that holds dots points
ParseDotted(body, dots) ==
    IF CountChar(body, "-", 1) > 0 \/ dots > 1 \/ Len(body) - dots = 0
    THEN Raise("ValueError")
    ELSE Ret(<<DigitsValue(body, 1, 0),
               Pow10(Len(body) - (IF dots = 1
                                  THEN Min({i \in 1..Len(body) : Char(body, i) = "."})
                                  ELSE Len(body)))>>)

ParseUnsigned(body) == ParseDotted(body, CountChar(body, ".", 1))

Negated(r) == IF r.exc # "" THEN r ELSE Ret(<<-r.val[1], r.val[2]>>)

\* float(g) for a text g over the characters - 0-9 . : the rational <<n, d>>, or ValueError
ParseFloat(g) ==
    IF StartsWith(g, "-") THEN Negated(ParseUnsigned(SubSeq(g, 2, Len(g)))) ELSE ParseUnsigned(g)

\* expressions of the model's commands that compile(expr, "<expr>", "eval") accepts;
\* every other text the commands can produce here is a SyntaxError
ValidExprs == {"x", "x**2", "2*x", "1/x", "1/(x+6)", "z", "1e999"}

\* fn(x) for x = xn/xd: [k |-> "val", n, d] the float n/d, "err" an exception, "inf" infinity
EvalFn(fn, xn, xd) ==
    CASE fn.k = "expr" /\ fn.e = "x" -> [k |-> "val", n |-> xn, d |-> xd]
      [] fn.k = "expr" /\ fn.e = "x**2" -> [k |-> "val", n |-> xn * xn, d |-> xd * xd]
      [] fn.k = "expr" /\ fn.e = "2*x" -> [k |-> "val", n |-> 2 * xn, d |-> xd]
      [] fn.k = "expr" /\ fn.e = "1/x" ->
            IF xn = 0 THEN [k |-> "err", n |-> 0, d |-> 1]
            ELSE IF xn > 0 THEN [k |-> "val", n |-> xd, d |-> xn]
            ELSE [k |-> "val", n |-> -xd, d |-> -xn]
      [] fn.k = "expr" /\ fn.e = "1/(x+6)" ->
            IF xn + 6 * xd = 0 THEN [k |-> "err", n |-> 0, d |-> 1]
            ELSE IF xn + 6 * xd > 0 THEN [k |-> "val", n |-> xd, d |-> xn + 6 * xd]
            ELSE [k |-> "val", n |-> -xd, d |-> -(xn + 6 * xd)]
      [] fn.k = "expr" /\ fn.e = "z" -> [k |-> "err", n |-> 0, d |-> 1]
      [] fn.k = "expr" /\ fn.e = "1e999" -> [k |-> "inf", n |-> 0, d |-> 1]
      \* lambda x: x * x
      [] fn.k = "square" -> [k |-> "val", n |-> xn * xn, d |-> xd * xd]
      \* lambda x: m * (x - a) + a * a, m = 2 * a, a = p/q
      [] fn.k = "tangent" ->
            LET p == fn.a[1]
                q == fn.a[2]
            IN  [k |-> "val", n |-> 2 * p * (xn * q - p * xd) + p * p * xd, d |-> q * q * xd]

PolyScale == 40
PolyCx == 400
PolyCy == 260

\* _poly_points(fn, x0, x1, n) with x0 = <<a, b>> = a/b and x1 = <<c, d>> = c/d.
\* The code computes in binary floating point and truncates; here the arithmetic is
\* exact, so a coordinate whose exact value is a whole number can differ by one from
\* the code's (the count of points and the exceptions are the same).
_poly_points(fn, x0, x1, n) ==
    LET m == IF n - 1 > 1 THEN n - 1 ELSE 1
        xd == x0[2] * x1[2] * m
        xn(i) == x0[1] * x1[2] * m + i * (x1[1] * x0[2] - x0[1] * x1[2])
        py(yi) == IF yi.k = "val"
                  THEN TruncDiv(PolyCy * yi.d - yi.n * PolyScale, yi.d)
                  ELSE PolyCy
        pt(i) == D([x |-> N(TruncDiv(PolyCx * xd + xn(i) * PolyScale, xd)),
                    y |-> N(py(EvalFn(fn, xn(i), xd)))])
    IN  IF \E i \in 0..(n - 1) : EvalFn(fn, xn(i), xd).k = "inf"
        THEN Raise("OverflowError")
        ELSE Ret(L([i \in 1..n |-> pt(i - 1)]))

Compile(e) == IF e \in ValidExprs THEN Ret([k |-> "expr", e |-> e]) ELSE Raise("SyntaxError")

\* _safe_parse_function(expr)
_safe_parse_function(expr) == Compile(Replace(Lower(Strip(expr)), "^", "**"))

NumChars == DigitSet \cup {"-", "."}

\* the steps of matching "tangent\s+at\s*x\s*=\s*" from index i of s: the index the
\* prefix ends at, 0 when it does not match there
AfterEquals(s, j) == IF Char(s, j) # "=" THEN 0 ELSE SkipSpaces(s, j + 1) - 1
AfterX(s, j) == IF Char(s, j) # "x" THEN 0 ELSE AfterEquals(s, SkipSpaces(s, j + 1))
AfterAt(s, j) == IF Slice(s, j, j + 1) # "at" THEN 0 ELSE AfterX(s, SkipSpaces(s, j + 2))

TangentPrefixEnd(s, i) ==
    IF ~(Slice(s, i, i + 6) = "tangent" /\ IsSpace(Char(s, i + 7))) THEN 0
    ELSE AfterAt(s, SkipSpaces(s, i + 7))

\* index group 1 starts at when the prefix ends at e, 0 when no number follows
GroupStart(s, e) == IF e > 0 /\ Char(s, e + 1) \in NumChars THEN e + 1 ELSE 0

FirstGroup(s, starts) ==
    IF starts = {} THEN <<>> ELSE <<SubSeq(s, Min(starts), RunEnd(s, Min(starts), NumChars))>>

\* re.search(r"tangent\s+at\s*x\s*=\s*([\-0-9\.]+)", s): <<>> or <<group 1>>
TangentMatch(s) ==
    FirstGroup(s, {GroupStart(s, TangentPrefixEnd(s, i)) : i \in 1..Len(s)} \ {0})

AxisX == D([type |-> S("line"), x |-> N(100), y |-> N(260), width |-> N(600), height |-> N(0), color |-> S("#9ca3af")])
AxisY == D([type |-> S("line"), x |-> N(400), y |-> N(460), width |-> N(0), height |-> N(-360), color |-> S("#9ca3af")])

Polyline(pts, color) == D([type |-> S("polyline"), points |-> pts, color |-> S(color)])

\* tan_pts for the tangent at a = <<p, q>> = p/q
TangentPoints(a) ==
    _poly_points([k |-> "tangent", a |-> a],
                 <<a[1] - 3 * a[2], a[2]>>, <<a[1] + 3 * a[2], a[2]>>, 10).val

\* the elements once a_match is known: a is float(a_match.group(1)), pts the parabola
ParabolaElements(a_match, a, pts) ==
    IF a.exc # "" THEN Raise(a.exc)
    ELSE IF a_match = <<>>
    THEN Ret(D([elements |-> L(<<AxisX, AxisY, Polyline(pts, "#2563eb")>>)]))
    ELSE Ret(D([elements |-> L(<<AxisX, AxisY, Polyline(pts, "#2563eb"),
                                 Polyline(TangentPoints(a.val), "#ef4444")>>)]))

TangentAt(a_match) == IF a_match = <<>> THEN Ret(<<>>) ELSE ParseFloat(a_match[1])

ParabolaWith(a_match) ==
    ParabolaElements(a_match, TangentAt(a_match),
                     _poly_points([k |-> "square"], <<-6, 1>>, <<6, 1>>, 120).val)

ParabolaIn(text) ==
    IF ~Contains(text, "parabola") THEN Ret(None) ELSE ParabolaWith(TangentMatch(text))

try_parabola_tangent(cmd) == ParabolaIn(Lower(cmd))

GroupFrom(s, g0) == <<SubSeq(s, g0, RunEndNot(s, g0, {",", ";"}))>>

\* re.search(r"y\s*=\s*([^,;]+)", s, flags=re.I): <<>> or <<group 1>>
EquationMatch(s) ==
    LET eq(i) == SkipSpaces(s, i + 1)
        starts == {i \in 1..Len(s) :
                     /\ Char(s, i) \in {"y", "Y"}
                     /\ Char(s, eq(i)) = "="
                     /\ eq(i) + 1 <= Len(s)
                     /\ Char(s, eq(i) + 1) \notin {",", ";"}}
    IN  IF starts = {} THEN <<>> ELSE GroupFrom(s, eq(Min(starts)) + 1)

chart_type_keywords == {"scatter", "bar chart", "histogram", "pie chart", "line chart", "box plot", "heatmap", "sankey"}

\* the spec once the samples are there; an exception of _poly_points leaves the handler
PlotElements(pts) ==
    IF pts.exc # "" THEN Raise(pts.exc)
    ELSE Ret(D([elements |-> L(<<AxisX, AxisY, Polyline(pts.val, "#10b981")>>)]))

\* try: fn = _safe_parse_function(expr) except Exception: return None
PlotParsed(fn) ==
    IF fn.exc # "" THEN Ret(None) ELSE PlotElements(_poly_points(fn.val, <<-6, 1>>, <<6, 1>>, 120))

PlotMatched(m) ==
    IF m = <<>> THEN Ret(None) ELSE PlotParsed(_safe_parse_function(Strip(m[1])))

\* the handler without the test for chart-type keywords: a variant against which
\* C23_ChartTypeDefers is tested
try_plot_function_any_chart(cmd) == PlotMatched(EquationMatch(cmd))

try_plot_function(cmd) ==
    IF AnyIn(Lower(cmd), chart_type_keywords) THEN Ret(None) ELSE PlotMatched(EquationMatch(cmd))

Rect(x, y, w, h, color) ==
    D([type |-> S("rect"), x |-> x, y |-> y, width |-> w, height |-> h, color |-> S(color)])
Line(x, y, w, h, color) ==
    D([type |-> S("line"), x |-> N(x), y |-> N(y), width |-> N(w), height |-> N(h), color |-> S(color)])
Circle(x, y, r, color) ==
    D([type |-> S("circle"), x |-> N(x), y |-> N(y), radius |-> N(r), color |-> S(color)])
Text(x, y, label, color) ==
    D([type |-> S("text"), x |-> N(x), y |-> N(y), label |-> S(label), color |-> S(color)])

RECURSIVE FlowSteps(_, _)
\* the elements of steps i..Len(steps) of try_flowchart's loop
FlowSteps(steps, i) ==
    IF i > Len(steps) THEN <<>>
    ELSE LET yy == 100 + (i - 1) * 90
         IN  <<Rect(N(120), N(yy), N(220), N(60), "#e5e7eb"),
               Text(120 + 16, yy + 18, steps[i], "#111827")>>
             \o (IF i - 1 < Len(steps) - 1
                 THEN <<D([type |-> S("arrow"), x |-> N(120 + 110), y |-> N(yy + 60),
                           width |-> N(0), height |-> N(30), color |-> S("#6b7280")])>>
                 ELSE <<>>)
             \o FlowSteps(steps, i + 1)

try_flowchart(cmd) ==
    LET text == Lower(cmd)
        steps == IF Contains(text, "funnel")
                 THEN <<"Awareness", "Consideration", "Signup", "Activation">>
                 ELSE <<"Start", "Process", "End">>
    IN  IF ~(\E k \in {"flowchart", "funnel"} : Contains(text, k)) THEN Ret(None)
        ELSE Ret(D([elements |-> L(FlowSteps(steps, 1))]))

_try_icon_person(cmd) ==
    LET text == Lower(cmd)
        x == 380
        y == 140
        body == <<Circle(x, y, 24, "#fde68a"),
                  Line(x, y + 24, 0, 80, "#111827"),
                  Line(x, y + 54, -40, 20, "#111827"),
                  Line(x, y + 54, 40, 20, "#111827"),
                  Line(x, y + 104, -30, 50, "#111827"),
                  Line(x, y + 104, 30, 50, "#111827")>>
        ball == IF \E k \in {"soccer", "football", "messi"} : Contains(text, k)
                THEN <<Circle(x + 60, y + 140, 12, "#16a34a")>>
                ELSE <<>>
    IN  IF ~(\E k \in {"person", "human", "man", "woman", "stick figure", "messi"} : Contains(text, k))
        THEN Ret(None)
        ELSE Ret(D([elements |-> L(body \o ball)]))

_try_icon_temple(cmd) ==
    LET text == Lower(cmd)
        x == 120
        y == 120
        w == 520
        h == 240
        col_w == 24
        \* gap = (w - 6*col_w) / 7 and cx = x + gap are floats; sevenths here
        gap7 == w - 6 * col_w
        cx7 == 7 * x + gap7
        col(i) == Rect(N(TruncDiv(cx7 + i * (7 * col_w + gap7), 7)), N(y + 40), N(col_w), N(h - 60), "#fecaca")
    IN  IF ~(\E k \in {"petra", "temple", "treasury", "facade"} : Contains(text, k))
        THEN Ret(None)
        ELSE Ret(D([elements |-> L(
                <<Rect(N(x), N(y + h - 20), N(w), N(20), "#d1d5db"),
                  D([type |-> S("triangle"), x |-> F(x + w \div 2 - 120, 1), y |-> N(y - 20),
                     width |-> N(240), height |-> N(120), color |-> S("#fca5a5")])>>
                \o [i \in 1..6 |-> col(i - 1)]
                \o <<Rect(N(x), N(y + 20), N(w), N(20), "#fca5a5")>>)]))

\* the handlers in calling order; the first truthy spec wins, an exception leaves the loop
interpret_by_rules(cmd) ==
    LET orElse(r, rest) == IF r.exc # "" \/ Truthy(r.val) THEN r ELSE rest
    IN  orElse(try_parabola_tangent(cmd),
        orElse(try_plot_function(cmd),
        orElse(try_flowchart(cmd),
        orElse(_try_icon_person(cmd),
        orElse(_try_icon_temple(cmd), Ret(None))))))

-----------------------------------------------------------------------------
(* services/llm_service.py: the normalizer *)

RECURSIVE NatToStr(_)
NatToStr(n) == IF n < 10 THEN Char(Digits, n + 1) ELSE NatToStr(n \div 10) \o Char(Digits, (n % 10) + 1)

\* str(v) of the values a raw "type" field holds here: text, None, booleans, integers
Str(j) ==
    CASE j.t = "str" -> j.v
      [] j.t = "null" -> "None"
      [] j.t = "bool" -> IF j.v THEN "True" ELSE "False"
      [] j.t = "int" -> IF j.v < 0 THEN "-" \o NatToStr(-j.v) ELSE NatToStr(j.v)
      [] OTHER -> "<" \o j.t \o ">"

\* round(n/d), d > 0: to the nearest integer, a tie to the even one
RoundHalfEven(n, d) ==
    LET q == n \div d
        r == n - q * d
    IN  IF 2 * r < d THEN q
        ELSE IF 2 * r > d THEN q + 1
        ELSE IF q % 2 = 0 THEN q ELSE q + 1

\* float(g) of a stripped text; the texts of this model hold no exponent, sign +,
\* underscore, inf or nan, so a character outside - 0-9 . is a ValueError
ParseText(g) ==
    IF g # "" /\ \A i \in 1..Len(g) : Char(g, i) \in NumChars
    THEN ParseFloat(g)
    ELSE Raise("ValueError")

\* float(v): Ret(<<n, d>>) or the exception float() raises
ToFloat(j) ==
    CASE j.t = "int" -> Ret(<<j.v, 1>>)
      [] j.t = "float" -> Ret(j.v)
      [] j.t = "bool" -> Ret(<<IF j.v THEN 1 ELSE 0, 1>>)
      [] j.t = "str" -> ParseText(Strip(j.v))
      [] OTHER -> Raise("TypeError")

\* try: return int(round(f)) except Exception: return default
RoundOr(f, default) ==
    IF f.exc # "" THEN default ELSE N(RoundHalfEven(f.val[1], f.val[2]))

\* _coerce_int(v, default)
_coerce_int(v, default) == IF v.t = "null" THEN default ELSE RoundOr(ToFloat(v), default)

\* a resolver that finds a picture for every subject: a variant against which
\* C19_LookupMissKeepsElement is tested
fetch_wikipedia_image_always(wiki, name) ==
    IF name.t = "str" THEN S("https://upload.wikimedia.org/" \o name.v) ELSE None

\* fetch_wikipedia_image_sync(name) when wiki is the set of subjects that resolve
fetch_wikipedia_image_sync(wiki, name) ==
    IF name.t = "str" /\ name.v \in wiki THEN S("https://upload.wikimedia.org/" \o name.v) ELSE None

\* a point of e["points"]: one without a coercible x or y, or that is no dict, is dropped
SanitizePoint(p, px, py) ==
    IF p.t = "dict" /\ px.t # "null" /\ py.t # "null" THEN <<D([x |-> px, y |-> py])>> ELSE <<>>

RECURSIVE SanitizePoints(_, _)
\* the loop over e["points"]
SanitizePoints(ps, i) ==
    IF i > Len(ps) THEN <<>>
    ELSE SanitizePoint(ps[i], _coerce_int(Get(ps[i], "x"), None), _coerce_int(Get(ps[i], "y"), None))
         \o SanitizePoints(ps, i + 1)

\* the element after the square branch has written width and height into it
SquareWrite(e) ==
    LET t0 == Lower(Strip(Str(GetOr(e, "type", S("")))))
        size == Or(Or(Or(Get(e, "size"), Get(e, "width")), Get(e, "height")), N(100))
    IN  IF t0 = "square" THEN D(Merge(e.v, [width |-> size, height |-> size])) ELSE e

\* folded type of a raw element
FoldType(t0) ==
    CASE t0 \in {"rectangle", "box", "square"} -> "rect"
      [] t0 = "pyramid" -> "triangle"
      [] t0 = "oval" -> "ellipse"
      [] t0 = "arrow" -> "line"
      [] OTHER -> t0

\* the optional attributes written back: radius, width and height when not None,
\* the others when truthy
KeepOptional(opt, required) ==
    LET keep == {k \in {"radius", "width", "height"} : opt[k].t # "null"}
                \cup {k \in DOMAIN opt \ {"radius", "width", "height"} : Truthy(opt[k])}
    IN  D(Merge([k \in keep |-> opt[k]], required))

\* the three named-entity lookups of an image element, in the order of the code
ResolveSrc(e, t, wiki) ==
    LET look(src, k) ==
            IF t = "image" /\ ~Truthy(src) /\ Truthy(Get(e, k))
            THEN Or(fetch_wikipedia_image_sync(wiki, Get(e, k)), src)
            ELSE src
    IN  look(look(look(IF t = "image" THEN Get(e, "src") ELSE None, "celebrity_name"),
                  "anatomy_term"), "geography_term")

LookupKeyOrder == <<"celebrity_name", "anatomy_term", "geography_term">>

RECURSIVE AskedWithSrc(_, _, _, _, _)
\* the lookups without the `not src` test: a variant against which C25_OncePerKey
\* is tested
AskedWithSrc(e, t, wiki, src, n) ==
    IF n > Len(LookupKeyOrder) THEN <<>>
    ELSE LET k == LookupKeyOrder[n]
             ask == t = "image" /\ Truthy(Get(e, k))
             found == fetch_wikipedia_image_sync(wiki, Get(e, k))
         IN  (IF ask THEN <<[key |-> k, name |-> Get(e, k)]>> ELSE <<>>)
             \o AskedWithSrc(e, t, wiki, IF ask THEN Or(found, src) ELSE src, n + 1)

RECURSIVE Asked(_, _, _, _, _)
\* the calls of fetch_wikipedia_image_sync the loop body makes for element e from
\* the n-th lookup block on, src being the source found so far
Asked(e, t, wiki, src, n) ==
    IF n > Len(LookupKeyOrder) THEN <<>>
    ELSE LET k == LookupKeyOrder[n]
             ask == t = "image" /\ ~Truthy(src) /\ Truthy(Get(e, k))
             found == fetch_wikipedia_image_sync(wiki, Get(e, k))
         IN  (IF ask THEN <<[key |-> k, name |-> Get(e, k)]>> ELSE <<>>)
             \o Asked(e, t, wiki, IF ask THEN Or(found, src) ELSE src, n + 1)

\* v or default when cond holds, v otherwise
OrWhen(cond, v, default) == IF cond /\ ~Truthy(v) THEN default ELSE v

ListOrNone(q) == IF q # <<>> THEN L(q) ELSE None

\* the loop body of normalize_spec after the square branch: e is the element, t its folded type
NormalizeFields(e, t, wiki) ==
    LET sized == t \in {"rect", "triangle", "ellipse", "line"}
        pt(k) == D([x |-> _coerce_int(Get(Get(e, k), "x"), N(0)),
                    y |-> _coerce_int(Get(Get(e, k), "y"), N(0))])
    IN  KeepOptional(
            [radius |-> OrWhen(t = "circle",
                               _coerce_int(Or(Or(Get(e, "radius"), Get(e, "r")), Get(e, "size")), None),
                               N(60)),
             width |-> OrWhen(sized, _coerce_int(Or(Get(e, "width"), Get(e, "w")), None),
                              N(IF t # "line" THEN 180 ELSE 220)),
             height |-> OrWhen(sized, _coerce_int(Or(Get(e, "height"), Get(e, "h")), None),
                               N(IF t # "line" THEN 120 ELSE 0)),
             label |-> Or(Get(e, "label"), Get(e, "text")),
             points |-> ListOrNone(IF Get(e, "points").t = "list"
                                   THEN SanitizePoints(Get(e, "points").v, 1) ELSE <<>>),
             from_point |-> IF t = "connector" /\ Get(e, "from_point").t = "dict"
                            THEN pt("from_point") ELSE None,
             to_point |-> IF t = "connector" /\ Get(e, "to_point").t = "dict"
                          THEN pt("to_point") ELSE None,
             src |-> ResolveSrc(e, t, wiki),
             fontSize |-> Get(e, "fontSize"), fontWeight |-> Get(e, "fontWeight"),
             textAlign |-> Get(e, "textAlign")],
            [type |-> S(IF t # "" THEN t ELSE "text"),
             x |-> _coerce_int(Get(e, "x"), N(100)),
             y |-> _coerce_int(Get(e, "y"), N(100)),
             color |-> Or(Or(Or(Get(e, "color"), Get(e, "fill")), Get(e, "backgroundColor")),
                          S("#1e90ff"))])

\* one pass of the loop body of normalize_spec over the dict e0
NormalizeElement(e0, wiki) ==
    NormalizeFields(SquareWrite(e0), FoldType(Lower(Strip(Str(GetOr(e0, "type", S("")))))), wiki)

\* the plotly branch taken on the truth value of the chart object instead of its
\* presence: a variant against which C14_PlotlyPassThrough is tested
PlotlyBranchTruthy(spec, visual_type) ==
    IF Truthy(Get(spec, "plotlySpec"))
    THEN Ret(D([visualType |-> visual_type, plotlySpec |-> spec.v["plotlySpec"]]))
    ELSE Ret(D([visualType |-> S("conceptual"), elements |-> L(<<>>)]))

\* if visual_type == "plotly": ...
PlotlyBranch(spec, visual_type) ==
    IF Has(spec, "plotlySpec")
    THEN Ret(D([visualType |-> visual_type, plotlySpec |-> spec.v["plotlySpec"]]))
    ELSE Ret(D([visualType |-> S("conceptual"), elements |-> L(<<>>)]))

\* if visual_type == "mermaid": ...
MermaidBranch(spec, visual_type) ==
    IF Has(spec, "mermaidCode")
    THEN Ret(D([visualType |-> visual_type, mermaidCode |-> spec.v["mermaidCode"]]))
    ELSE Ret(D([visualType |-> S("conceptual"), elements |-> L(<<>>)]))

\* the mathematical_interactive branch with the downgrade of the mathematical
\* one: a variant against which C15_MathPassThrough is tested
InteractiveBranchDowngrading(spec, visual_type) ==
    IF Has(spec, "expressions") /\ spec.v["expressions"].t = "list"
    THEN Ret(D([visualType |-> visual_type, expressions |-> spec.v["expressions"]]))
    ELSE IF Has(spec, "expression")
    THEN Ret(D([visualType |-> visual_type, expression |-> spec.v["expression"]]))
    ELSE Ret(D([visualType |-> S("conceptual"), elements |-> L(<<>>)]))

\* if visual_type == "mathematical_interactive": ...
InteractiveBranch(spec, visual_type) ==
    IF Has(spec, "expressions") /\ spec.v["expressions"].t = "list"
    THEN Ret(D([visualType |-> visual_type, expressions |-> spec.v["expressions"]]))
    ELSE Ret(D([visualType |-> visual_type, expression |-> GetOr(spec, "expression", S(""))]))

\* if visual_type == "mathematical": ...
MathematicalBranch(spec, elements, visual_type) ==
    IF Has(spec, "expressions") /\ spec.v["expressions"].t = "list"
    THEN Ret(D([visualType |-> visual_type, expressions |-> spec.v["expressions"]]))
    ELSE IF Has(spec, "expression")
    THEN Ret(D([visualType |-> visual_type, expression |-> spec.v["expression"]]))
    ELSE Ret(D([visualType |-> S("conceptual"), elements |-> elements]))

\* normalize_spec for a dict spec: elements is spec.get("elements") or [],
\* visual_type is spec.get("visualType", "conceptual")
NormalizeDict(spec, elements, visual_type, wiki) ==
    \* len(elements) in the log line
    IF elements.t \in {"int", "float", "bool"} THEN Raise("TypeError")
    ELSE IF EqStr(visual_type, "plotly") THEN PlotlyBranch(spec, visual_type)
    ELSE IF EqStr(visual_type, "mermaid") THEN MermaidBranch(spec, visual_type)
    ELSE IF EqStr(visual_type, "mathematical_interactive") THEN InteractiveBranch(spec, visual_type)
    ELSE IF EqStr(visual_type, "mathematical") THEN MathematicalBranch(spec, elements, visual_type)
    \* iterating a text or a dict yields texts, which have no .get
    ELSE IF elements.t \in {"str", "dict"} THEN Raise("AttributeError")
    ELSE IF \E i \in 1..Len(elements.v) : elements.v[i].t # "dict" THEN Raise("AttributeError")
    ELSE Ret(D([visualType |-> visual_type,
                elements |-> L([i \in 1..Len(elements.v) |-> NormalizeElement(elements.v[i], wiki)])]))

RECURSIVE LoopLookups(_, _, _)
\* the lookups of the loop over es from element i on; the loop ends at the first
\* element that is no dict
LoopLookups(es, i, wiki) ==
    IF i > Len(es) \/ es[i].t # "dict" THEN <<>>
    ELSE LET t == FoldType(Lower(Strip(Str(GetOr(es[i], "type", S(""))))))
             asked == Asked(es[i], t, wiki, IF t = "image" THEN Get(es[i], "src") ELSE None, 1)
         IN  [j \in 1..Len(asked) |-> [i |-> i, key |-> asked[j].key, name |-> asked[j].name]]
             \o LoopLookups(es, i + 1, wiki)

\* the calls of fetch_wikipedia_image_sync one call of normalize_spec makes
NormalizeLookups(spec, wiki) ==
    LET elements == Or(Get(spec, "elements"), L(<<>>))
        visual_type == GetOr(spec, "visualType", S("conceptual"))
    IN  IF spec.t # "dict" THEN <<>>
        ELSE IF elements.t # "list" THEN <<>>
        ELSE IF \E tag \in {"plotly", "mermaid", "mathematical_interactive", "mathematical"} :
                    EqStr(visual_type, tag) THEN <<>>
        ELSE LoopLookups(elements.v, 1, wiki)

RECURSIVE LoopWrites(_, _)
\* the elements es as the loop leaves them, from element i on: the square branch
\* writes width and height into the element it reads; the loop ends at the first
\* element that is no dict
LoopWrites(es, i) ==
    IF i > Len(es) THEN <<>>
    ELSE IF es[i].t # "dict" THEN SubSeq(es, i, Len(es))
    ELSE <<SquareWrite(es[i])>> \o LoopWrites(es, i + 1)

\* the argument of normalize_spec as the call leaves it
ArgumentAfter(spec) ==
    LET elements == Or(Get(spec, "elements"), L(<<>>))
        visual_type == GetOr(spec, "visualType", S("conceptual"))
    IN  IF spec.t # "dict" THEN spec
        ELSE IF elements.t # "list" THEN spec
        ELSE IF \E tag \in {"plotly", "mermaid", "mathematical_interactive", "mathematical"} :
                    EqStr(visual_type, tag) THEN spec
        ELSE IF elements.v = <<>> THEN spec
        ELSE D(Merge(spec.v, [elements |-> L(LoopWrites(elements.v, 1))]))

normalize_spec(spec, wiki) ==
    IF spec.t # "dict" THEN Raise("AttributeError")
    ELSE NormalizeDict(spec, Or(Get(spec, "elements"), L(<<>>)),
                       GetOr(spec, "visualType", S("conceptual")), wiki)

-----------------------------------------------------------------------------
(* services/llm_service.py: the naive fallback *)

IsLetter(c) == c # "" /\ (Contains(UpperLetters, c) \/ Contains(LowerLetters, c))

RECURSIVE LStripChars(_, _)
\* s.lstrip(chars)
LStripChars(s, chars) ==
    IF s # "" /\ Char(s, 1) \in chars THEN LStripChars(SubSeq(s, 2, Len(s)), chars) ELSE s

RECURSIVE RStripChars(_, _)
RStripChars(s, chars) ==
    IF s # "" /\ Char(s, Len(s)) \in chars THEN RStripChars(SubSeq(s, 1, Len(s) - 1), chars) ELSE s

RECURSIVE TitleFrom(_, _)
TitleFrom(s, i) ==
    IF i > Len(s) THEN ""
    ELSE (IF IsLetter(Char(s, i - 1)) THEN LowerChar(Char(s, i)) ELSE UpperChar(Char(s, i)))
         \o TitleFrom(s, i + 1)

\* s.title()
Title(s) == TitleFrom(s, 1)

SubjectCap == 64

prefixes == <<"show me ", "show ", "draw ", "visualize ", "render ", "make ", "create ">>

\* the first prefix of the list the lowered text starts with is cut off the text
CutPrefix(s0, hits) ==
    IF hits = {} THEN s0 ELSE SubSeq(s0, Len(prefixes[Min(hits)]) + 1, Len(s0))

\* s.strip().lstrip("a ").lstrip("an ").lstrip("the "): each lstrip strips a character set
StripArticles(s) ==
    LStripChars(LStripChars(LStripChars(Strip(s), {"a", " "}), {"a", "n", " "}), {"t", "h", "e", " "})

\* s.strip().strip(".?!")
StripPunctuation(s) == RStripChars(LStripChars(Strip(s), {".", "?", "!"}), {".", "?", "!"})

\* s[:64].title() if s else ""
Capped(s) == IF s # "" THEN Title(Slice(s, 1, SubjectCap)) ELSE ""

SubjectOf(s0) ==
    Capped(StripPunctuation(StripArticles(
        CutPrefix(s0, {i \in 1..Len(prefixes) : StartsWith(Lower(s0), prefixes[i])}))))

extract_subject(cmd) == SubjectOf(Strip(cmd))

_build_label_card(subject) ==
    <<Rect(N(140), N(120), N(280), N(140), "#e0e7ff"),
      Text(140 + 16, 120 + 16, subject, "#111827")>>

color_names == <<"red", "blue", "green", "yellow", "purple", "orange", "black", "white">>

\* the colour without the search for a colour name: a variant against which
\* C11_FallbackCircle is tested
ColorOfDefault(named) == "#1e90ff"

\* the first colour name of the list found in the text, else the default colour
ColorOf(named) == IF named = {} THEN "#1e90ff" ELSE color_names[Min(named)]

\* the shape the lowered text names, else the label card of the subject
FallbackShape(text, color, subject) ==
    IF Contains(text, "circle")
    THEN D([elements |-> L(<<Circle(200, 200, 60, color)>>)])
    ELSE IF AnyIn(text, {"rectangle", "rect", "box", "square"})
    THEN D([elements |-> L(<<Rect(N(150), N(150), N(160),
                                  N(IF Contains(text, "square") THEN 160 ELSE 100), color)>>)])
    ELSE IF AnyIn(text, {"triangle", "pyramid"})
    THEN D([elements |-> L(<<D([type |-> S("triangle"), x |-> N(180), y |-> N(160),
                                width |-> N(140), height |-> N(120), color |-> S(color)])>>)])
    ELSE IF AnyIn(text, {"ellipse", "oval"})
    THEN D([elements |-> L(<<D([type |-> S("ellipse"), x |-> N(180), y |-> N(160),
                                width |-> N(180), height |-> N(120), color |-> S(color)])>>)])
    ELSE IF Contains(text, "line")
    THEN D([elements |-> L(<<Line(100, 100, 220, 0, color)>>)])
    ELSE D([elements |-> L(_build_label_card(subject))])

FallbackIn(text, subject) ==
    FallbackShape(text, ColorOf({i \in 1..Len(color_names) : Contains(text, color_names[i])}),
                  IF subject # "" THEN subject ELSE "Item")

fallback_naive(cmd) == FallbackIn(Lower(cmd), extract_subject(cmd))

-----------------------------------------------------------------------------
(* services/image_service.py *)

WordChars == {Char(UpperLetters, i) : i \in 1..26} \cup {Char(LowerLetters, i) : i \in 1..26}
             \cup DigitSet \cup {"_"}

RECURSIVE ParenFrom(_, _)
\* re.sub(r'(\w+)\(([^)]+)\)', r'\1["\2"]', s), from index i on
ParenFrom(s, i) ==
    IF i > Len(s) THEN ""
    ELSE LET close == RunEndNot(s, i + 1, {")"}) + 1
         IN  IF /\ Char(s, i) = "("
                /\ Char(s, i - 1) \in WordChars
                /\ close <= Len(s)
                /\ close > i + 1
             THEN "[\"" \o SubSeq(s, i + 1, close - 1) \o "\"]" \o ParenFrom(s, close + 1)
             ELSE Char(s, i) \o ParenFrom(s, i + 1)

\* The code-fence marker of the replies.  A string of this module cannot hold the
\* backquote character, so the three backquotes are written as three tildes here,
\* in the replies and in the clean-up alike.
Fence == "~~~"

\* lines[1:-1] of a text that starts with the fence and has more than two lines
DropFenceLines(c0, nls) ==
    IF StartsWith(c0, Fence) /\ Cardinality(nls) + 1 > 2
    THEN SubSeq(c0, Min(nls) + 1, (CHOOSE m \in nls : \A n \in nls : n <= m) - 1)
    ELSE c0

Unfenced(c0) == DropFenceLines(c0, {i \in 1..Len(c0) : Char(c0, i) = "\n"})

\* the clean-up of the diagram text the backend answered with
CleanMermaid(content) ==
    ParenFrom(Strip(Replace(Replace(Strip(Unfenced(Strip(content))), Fence \o "mermaid", ""),
                            Fence, "")), 1)

\* what the diagram backend may answer: message.content ("" also stands for None)
MermaidReplies ==
    {"", "graph TD\nA --> B", "~~~mermaid\n~~~", "~~~mermaid\nflowchart TD\nA(Start) --> B\n~~~"}

\* try_generate_mermaid_diagram once the backend answered content
MermaidSpec(content) ==
    D([visualType |-> S("mermaid"), mermaidCode |-> S(CleanMermaid(content)), elements |-> L(<<>>)])

\* models_to_try with a third model appended: a variant against which the bound of
\* C4_ChainBounded is tested
ModelsToTryThree(image_model) ==
    IF image_model # "dall-e-3" THEN <<image_model, "dall-e-3", "dall-e-2">> ELSE <<image_model, "dall-e-2">>

\* models_to_try
ModelsToTry(image_model) ==
    IF image_model # "dall-e-3" THEN <<image_model, "dall-e-3">> ELSE <<image_model>>

\* what one images.generate request may do: raise, answer without data, answer with data
ImageOutcomes == {"raise", "empty", "b64"}

\* number of requests the loop over models_to_try issues for the outcomes outs
ImageRequests(outs) ==
    IF \E i \in 1..Len(outs) : outs[i] = "b64"
    THEN Min({i \in 1..Len(outs) : outs[i] = "b64"})
    ELSE Len(outs)

ImageSpec ==
    D([elements |-> L(<<D([type |-> S("image"), x |-> N(100), y |-> N(60), width |-> N(512),
                           height |-> N(512), src |-> S("data:image/png;base64,iVBORw0KGgo")])>>)])

-----------------------------------------------------------------------------
(* services/config.py *)

TIER_MODELS ==
    [FREE |-> [llm_model |-> "gpt-4o-mini", use_local_llm |-> FALSE, enable_images |-> FALSE, enable_voice |-> FALSE],
     PRO |-> [llm_model |-> "gpt-4o", use_local_llm |-> FALSE, enable_images |-> FALSE, enable_voice |-> TRUE],
     TEAM |-> [llm_model |-> "gpt-4o", use_local_llm |-> FALSE, enable_images |-> FALSE, enable_voice |-> TRUE],
     ENTERPRISE |-> [llm_model |-> "gpt-4o", use_local_llm |-> FALSE, enable_images |-> FALSE, enable_voice |-> TRUE]]

get_tier_config(tier) == IF tier \in DOMAIN TIER_MODELS THEN TIER_MODELS[tier] ELSE TIER_MODELS["FREE"]

\* The rows a deployment hands to the orchestrator.  enable_images is the per-tier
\* switch interpret_with_source reads; the table as shipped has it off in every row,
\* and the row with the switch on is the one the image branch exists for.
TierRows ==
    {get_tier_config("GUEST"), [get_tier_config("PRO") EXCEPT !.enable_images = TRUE]}

-----------------------------------------------------------------------------
(* services/llm_service.py: routing flags of interpret_with_source *)

math_keywords == {"plot", "graph", "parabola", "function", "equation", "y=", "x=", "tangent",
                  "derivative", "sin", "cos", "tan", "integral"}
comparison_keywords == {"compare", "vs", "versus", "which is better", "difference between", "comparison"}
workflow_keywords == {"workflow", "pipeline", "process", "lifecycle", "how does", "how do", "steps",
                      "stages", "procedure", "sequence"}
hierarchy_keywords == {"hierarchy", "organization", "org chart", "structure", "tree", "taxonomy"}
network_keywords == {"network", "connection", "relationship", "relate", "between", "connect"}
timeseries_keywords == {"over time", "growth", "trend", "forecast", "historical", "change over"}
mermaid_keywords == {"authentication", "oauth", "login", "api request", "http", "sequence"}
generate_image_keywords == {"illustration", "drawing", "realistic", "diagram", "scene", "picture"}
logo_keywords == {"logo", "brand"}

is_math(cmd) == AnyIn(Lower(cmd), math_keywords)
is_comparison(cmd) == AnyIn(Lower(cmd), comparison_keywords)
is_workflow(cmd) == AnyIn(Lower(cmd), workflow_keywords)
is_hierarchy(cmd) == AnyIn(Lower(cmd), hierarchy_keywords)
is_network(cmd) == AnyIn(Lower(cmd), network_keywords) /\ ~is_comparison(cmd)
is_timeseries(cmd) == AnyIn(Lower(cmd), timeseries_keywords)
\* the sequential-diagram flag without its second conjunct: a variant against which
\* C22_SequentialFlag is tested
use_mermaid_any_workflow(cmd) == is_workflow(cmd)

use_mermaid(cmd) == is_workflow(cmd) /\ AnyIn(Lower(cmd), mermaid_keywords)
needs_ai_image(cmd) == AnyIn(Lower(cmd), generate_image_keywords)
is_logo_request(cmd) == AnyIn(Lower(cmd), logo_keywords)

\* the diagram guard with comparisons excluded as well: a variant against which
\* C10_MermaidFirstUnlessMath is tested
MermaidGuardNoComparison(cmd) == ~is_math(cmd) /\ use_mermaid(cmd) /\ ~is_comparison(cmd)

\* the guard of the diagram-synthesis attempt
MermaidGuard(cmd) == ~is_math(cmd) /\ use_mermaid(cmd)

\* the image guard without the logo/brand conjunct: a variant against which
\* C9_NoImageForLogo is tested
ImageGuardIgnoringLogo(cmd, enable_images, image_first) ==
    enable_images /\ (needs_ai_image(cmd) \/ image_first)

\* the guard of the image-synthesis attempt
ImageGuard(cmd, enable_images, image_first) ==
    enable_images /\ (needs_ai_image(cmd) \/ image_first) /\ ~is_logo_request(cmd)

\* the hint with workflow ranked above comparison: a variant against which
\* C8_ImageOnlyByPolicy is tested
RoutingHintWorkflowFirst(cmd) ==
    IF is_workflow(cmd) THEN <<"workflow">>
    ELSE IF is_comparison(cmd) THEN <<"comparison">>
    ELSE IF is_hierarchy(cmd) THEN <<"hierarchy">>
    ELSE IF is_timeseries(cmd) THEN <<"timeseries">>
    ELSE IF is_network(cmd) THEN <<"network">>
    ELSE <<>>

\* the hint with network ranked above time series: a variant against which
\* C21_HintByPriority is tested
RoutingHintNetworkFirst(cmd) ==
    IF is_comparison(cmd) THEN <<"comparison">>
    ELSE IF is_workflow(cmd) THEN <<"workflow">>
    ELSE IF is_hierarchy(cmd) THEN <<"hierarchy">>
    ELSE IF is_network(cmd) THEN <<"network">>
    ELSE IF is_timeseries(cmd) THEN <<"timeseries">>
    ELSE <<>>

\* the hint handed to call_openai_for_spec: <<>> is None
RoutingHint(cmd) ==
    IF is_comparison(cmd) THEN <<"comparison">>
    ELSE IF is_workflow(cmd) THEN <<"workflow">>
    ELSE IF is_hierarchy(cmd) THEN <<"hierarchy">>
    ELSE IF is_timeseries(cmd) THEN <<"timeseries">>
    ELSE IF is_network(cmd) THEN <<"network">>
    ELSE <<>>

-----------------------------------------------------------------------------
(* services/llm_service.py: call_openai_for_spec and the model branch *)

\* What json.loads(content) may hand back when the request and the parse succeed.
RawPayloads ==
    { L(<<>>),
      EmptyDict,
      D([nodes |-> L(<<D([id |-> S("a")])>>), links |-> L(<<>>)]),
      D([nodes |-> L(<<>>), links |-> L(<<>>)]),
      D([nodes |-> L(<<D([id |-> S("a")])>>), links |-> L(<<>>),
         elements |-> L(<<D([type |-> S("square")])>>)]),
      D([visualType |-> S("plotly"), plotlySpec |-> D([data |-> L(<<>>)])]),
      D([visualType |-> S("plotly"), plotlySpec |-> EmptyDict]),
      D([visualType |-> S("plotly")]),
      D([visualType |-> S("mermaid"), mermaidCode |-> S("graph TD")]),
      D([visualType |-> S("mermaid"), mermaidCode |-> S("")]),
      D([visualType |-> S("mathematical"), expression |-> S("x^2")]),
      D([visualType |-> S("mathematical"), expressions |-> L(<<>>)]),
      D([visualType |-> S("mathematical"), elements |-> L(<<D([type |-> S("arrow")])>>)]),
      D([visualType |-> S("mathematical_interactive")]),
      D([visualType |-> S("mathematical_interactive"), expressions |-> L(<<S("sin(x)")>>)]),
      D([visualType |-> S("timeline"), elements |-> L(<<>>)]),
      D([elements |-> L(<<D([type |-> S("square"), width |-> N(50)])>>)]),
      D([elements |-> L(<<S("circle")>>)]),
      D([elements |-> L(<<D([type |-> S("image"), celebrity_name |-> S("Lionel Messi")])>>)]) }

\* subjects the image resolver may be asked for
WikiNames == {"Lionel Messi", "heart"}

\* what one chat.completions.create request of call_openai_for_spec may end in
LlmOutcomes ==
    {[k |-> "transport", raw |-> None], [k |-> "parse", raw |-> None]}
    \cup {[k |-> "raw", raw |-> r] : r \in RawPayloads}

\* str(e) of the exceptions caught around the model branch
ExcText(e) ==
    CASE e = "transport" -> "Connection error."
      [] e = "parse" -> "Expecting value: line 1 column 1 (char 0)"
      [] e = "AttributeError" -> "object has no attribute 'get'"
      [] e = "TypeError" -> "object has no len()"
      [] OTHER -> e

\* the checks of the try block on the normalized spec_dict
Validate(spec_dict, visual_type) ==
    LET ok == [ret |-> TRUE, spec |-> spec_dict, last_error |-> ""]
        fail(m) == [ret |-> FALSE, spec |-> None, last_error |-> m]
    IN  IF EqStr(visual_type, "plotly") THEN
            IF Truthy(Get(spec_dict, "plotlySpec")) THEN ok
            ELSE fail("LLM returned plotly type without plotlySpec")
        ELSE IF EqStr(visual_type, "mermaid") THEN
            IF Truthy(Get(spec_dict, "mermaidCode")) THEN ok
            ELSE fail("LLM returned mermaid type without mermaidCode")
        ELSE IF EqStr(visual_type, "mathematical") \/ EqStr(visual_type, "mathematical_interactive") THEN
            IF Truthy(Get(spec_dict, "expression")) \/ Truthy(Get(spec_dict, "expressions")) THEN ok
            ELSE fail("LLM returned " \o visual_type.v \o " type without expression")
        ELSE IF Truthy(Get(spec_dict, "elements")) THEN ok
        ELSE fail("LLM returned no valid visualization data")

\* an exception of normalize_spec is caught by the except clause of the try block
Normalized(norm) ==
    IF norm.exc # ""
    THEN [ret |-> FALSE, spec |-> None, last_error |-> ExcText(norm.exc)]
    ELSE Validate(norm.val, GetOr(norm.val, "visualType", S("conceptual")))

\* the body of the try block without the `if raw.get("nodes")` return: a variant
\* against which C20_NodesPassThrough is tested
LlmBranchNormalizing(raw, wiki) ==
    IF raw.t # "dict"
    THEN [ret |-> FALSE, spec |-> None, last_error |-> ExcText("AttributeError")]
    ELSE Normalized(normalize_spec(raw, wiki))

\* The body of the try block once call_openai_for_spec returned raw:
\* [ret |-> TRUE, spec] is a return (spec, "llm", None), otherwise last_error is set.
LlmBranch(raw, wiki) ==
    IF raw.t # "dict"
    THEN [ret |-> FALSE, spec |-> None, last_error |-> ExcText("AttributeError")]
    ELSE IF Truthy(Get(raw, "nodes")) THEN [ret |-> TRUE, spec |-> raw, last_error |-> ""]
    ELSE Normalized(normalize_spec(raw, wiki))

-----------------------------------------------------------------------------
(* services/llm_service.py: interpret_with_source, one action per step *)

\* words the commands are made of
Phrases ==
    {"plot", "parabola", "tangent at x = -", "y = x**2", "y=x", "flowchart",
     "compare", "sequence", "illustration", "logo", "network", "red", "circle"}

RECURSIVE Join(_)
\* the words of ws joined by single spaces
Join(ws) ==
    IF Len(ws) = 0 THEN ""
    ELSE IF Len(ws) = 1 THEN ws[1]
    ELSE ws[1] \o " " \o Join(Tail(ws))

Commands == {Join(ws) : ws \in UNION {[1..n -> Phrases] : n \in 0..MaxWords}}

\* The locals interpret_with_source computes from the command before its first step,
\* tabulated over the commands of the model.
Routing ==
    [c \in Commands |->
        [is_math |-> is_math(c),
         is_comparison |-> is_comparison(c),
         is_network |-> is_network(c),
         use_mermaid |-> use_mermaid(c),
         needs_ai_image |-> needs_ai_image(c),
         is_logo_request |-> is_logo_request(c),
         mermaid_guard |-> MermaidGuard(c),
         image_guard |-> [enable_images \in BOOLEAN, image_first \in BOOLEAN |->
                             ImageGuard(c, enable_images, image_first)],
         routing_hint |-> RoutingHint(c)]]

\* interpret_by_rules(command) and fallback_naive(command) depend on the command
\* alone: tabulated over the commands of the model
RuleResult == [c \in Commands |-> interpret_by_rules(c)]
Fallback == [c \in Commands |-> fallback_naive(c)]

Returned(spec, source, error) == <<[spec |-> spec, source |-> source, error |-> error]>>

\* no request at the endpoint
EndpointIdle ==
    /\ row = [usage_count |-> 0, due |-> FALSE, near |-> FALSE]
    /\ chat = 0
    /\ limit = -1
    /\ req = <<>>

env == <<AI_IMAGE_FIRST, AI_DISABLE_RULES, AI_REQUIRE, OPENAI_API_KEY, IMAGE_MODEL, tier_config>>

Init ==
    /\ command \in Commands
    /\ AI_IMAGE_FIRST \in BOOLEAN
    /\ AI_DISABLE_RULES \in BOOLEAN
    /\ AI_REQUIRE \in BOOLEAN
    /\ OPENAI_API_KEY \in BOOLEAN
    /\ IMAGE_MODEL \in {"gpt-image-1", "dall-e-3"}
    /\ tier_config \in TierRows
    /\ pc = "rules_first"
    /\ last_error = <<>>
    /\ routing_hint = <<>>
    /\ calls = <<>>
    /\ result = <<>>
    /\ raised = <<>>
    /\ raw_spec = None
    /\ wiki_found = {}
    /\ norm_out = <<>>
    /\ renorm_out = <<>>
    /\ raw_after = <<>>
    /\ intent = <<>>
    /\ rule_out = <<>>
    /\ fallback_out = <<>>
    /\ EndpointIdle

\* one pass of the rule engine from the orchestrator: a hit returns, a miss goes on
\* at `next`, an exception of a handler leaves interpret_with_source
RulesPass(next) ==
    \E r \in {RuleResult[command]} :
        /\ calls' = Append(calls, "interpret_by_rules")
        /\ IF r.exc # ""
           THEN pc' = "raised" /\ raised' = <<r.exc>> /\ result' = result
           ELSE IF Truthy(r.val)
           THEN pc' = "done" /\ result' = Returned(r.val, "rules", <<>>) /\ raised' = raised
           ELSE pc' = next /\ result' = result /\ raised' = raised

\* if is_math and not AI_DISABLE_RULES: ...
RulesFirst ==
    /\ pc = "rules_first"
    /\ IF Routing[command].is_math /\ ~AI_DISABLE_RULES
       THEN RulesPass("mermaid")
       ELSE pc' = "mermaid" /\ UNCHANGED <<calls, result, raised>>
    /\ UNCHANGED <<normalizer, command, env, units, last_error, routing_hint>>

\* if not is_math and use_mermaid: ...
Mermaid ==
    /\ pc = "mermaid"
    /\ IF ~Routing[command].mermaid_guard
       THEN pc' = "image" /\ UNCHANGED <<calls, result>>
       ELSE IF ~OPENAI_API_KEY
       THEN /\ calls' = Append(calls, "try_generate_mermaid_diagram")
            /\ pc' = "image"
            /\ result' = result
       ELSE \E out \in {[k |-> "raise", content |-> ""]}
                       \cup {[k |-> "reply", content |-> c] : c \in MermaidReplies} :
            /\ calls' = calls \o <<"try_generate_mermaid_diagram", "mermaid_request">>
            /\ IF out.k = "raise"
               THEN pc' = "image" /\ result' = result
               ELSE pc' = "done" /\ result' = Returned(MermaidSpec(out.content), "mermaid", <<>>)
    /\ UNCHANGED <<normalizer, command, env, units, last_error, routing_hint, raised>>

\* if enable_images and (needs_ai_image or AI_IMAGE_FIRST) and not is_logo_request: ...
Image ==
    /\ pc = "image"
    /\ IF ~Routing[command].image_guard[tier_config.enable_images, AI_IMAGE_FIRST]
       THEN pc' = "llm" /\ UNCHANGED <<calls, result>>
       ELSE IF ~OPENAI_API_KEY
       THEN /\ calls' = Append(calls, "try_generate_image_spec")
            /\ pc' = "llm"
            /\ result' = result
       ELSE \E outs \in [1..Len(ModelsToTry(IMAGE_MODEL)) -> ImageOutcomes] :
            /\ calls' = calls \o <<"try_generate_image_spec">>
                              \o [i \in 1..ImageRequests(outs) |-> "image_request"]
            /\ IF \E i \in 1..Len(outs) : outs[i] = "b64"
               THEN pc' = "done" /\ result' = Returned(ImageSpec, "image", <<>>)
               ELSE pc' = "llm" /\ result' = result
    /\ UNCHANGED <<normalizer, command, env, units, last_error, routing_hint, raised>>

\* the try block around call_openai_for_spec
Llm ==
    /\ pc = "llm"
    /\ routing_hint' = Routing[command].routing_hint
    /\ IF ~tier_config.use_local_llm /\ ~OPENAI_API_KEY
       THEN /\ calls' = Append(calls, "call_openai_for_spec")
            /\ last_error' = <<"Missing OPENAI_API_KEY">>
            /\ pc' = "rules_retry"
            /\ UNCHANGED <<result, raw_spec>>
       ELSE \E out \in LlmOutcomes, wiki \in SUBSET WikiNames :
            /\ calls' = calls \o <<"call_openai_for_spec", "llm_request">>
            /\ raw_spec' = out.raw
            /\ IF out.k # "raw"
               THEN /\ last_error' = <<ExcText(out.k)>>
                    /\ pc' = "rules_retry"
                    /\ result' = result
               ELSE \E b \in {LlmBranch(out.raw, wiki)} :
                        IF b.ret
                        THEN /\ pc' = "done"
                             /\ result' = Returned(b.spec, "llm", <<>>)
                             /\ last_error' = last_error
                        ELSE /\ pc' = "rules_retry"
                             /\ last_error' = <<b.last_error>>
                             /\ result' = result
    /\ UNCHANGED <<wiki_found, norm_out, renorm_out, raw_after, command, env, units, raised>>

\* the step after the model branch without the second rule-engine pass: a variant
\* against which C6_RulesRetried is tested
RulesRetrySkipped ==
    /\ pc = "rules_retry"
    /\ pc' = "final"
    /\ UNCHANGED <<normalizer, command, env, units, last_error, routing_hint, calls, result, raised>>

\* if not AI_DISABLE_RULES: ...
RulesRetry ==
    /\ pc = "rules_retry"
    /\ IF ~AI_DISABLE_RULES
       THEN RulesPass("final")
       ELSE pc' = "final" /\ UNCHANGED <<calls, result, raised>>
    /\ UNCHANGED <<normalizer, command, env, units, last_error, routing_hint>>

\* the last step without the AI_REQUIRE test: a variant against which
\* C2_ResultContract is tested
FinalAlwaysFallback ==
    /\ pc = "final"
    /\ pc' = "done"
    /\ result' = Returned(Fallback[command], "fallback", last_error)
    /\ UNCHANGED <<normalizer, command, env, units, last_error, routing_hint, calls, raised>>

\* if AI_REQUIRE: return None, "error", ...; return fallback_naive(command), "fallback", last_error
Final ==
    /\ pc = "final"
    /\ pc' = "done"
    /\ result' = IF AI_REQUIRE
                 THEN Returned(None, "error",
                               IF last_error # <<>> /\ last_error[1] # "" THEN last_error ELSE <<"AI unavailable">>)
                 ELSE Returned(Fallback[command], "fallback", last_error)
    /\ UNCHANGED <<normalizer, command, env, units, last_error, routing_hint, calls, raised>>

Next == RulesFirst \/ Mermaid \/ Image \/ Llm \/ RulesRetry \/ Final

Spec == Init /\ [][Next]_vars

-----------------------------------------------------------------------------
(* services/llm_service.py: normalize_spec on its own, applied once and then
   to its own result *)

\* raw "type" fields of an element
ElementTypes == {"square", "rect", "Box ", "circle", "line", "arrow", "text", "image", ""}

\* raw size attributes of an element and the values they may carry:
\* 50, 0, -5, 0.4, 3.5, "12", "big", null
SizeKeys == {"width", "height", "size", "radius", "w", "r"}
SizeValues == {N(50), N(0), N(-5), F(2, 5), F(7, 2), S("12"), S("big"), None}

\* raw elements: a type alone, a type with one size attribute, and elements with
\* colours, positions, points, image keys and a type that is no text
ElementInputs ==
    {D([type |-> S(t)]) : t \in ElementTypes}
    \cup {D(Merge([type |-> S(t)], [k \in {key} |-> v])) :
              t \in ElementTypes, key \in SizeKeys, v \in SizeValues}
    \cup { D([type |-> S("square"), width |-> N(50), height |-> N(20)]),
           D([type |-> S("square"), height |-> N(20)]),
           D([type |-> S("rect"), fill |-> S("green")]),
           D([type |-> S("oval"), backgroundColor |-> S("pink")]),
           D([type |-> S("pyramid"), color |-> S("red"), fill |-> S("green")]),
           D([type |-> S("Rectangle"), x |-> S("12"), y |-> F(5, 2)]),
           D([type |-> S("text"), x |-> S("left"), text |-> S("hi")]),
           D([type |-> N(5)]),
           D([type |-> S("polyline"),
              points |-> L(<<S("a"), D([x |-> N(1), y |-> F(3, 2)]), D([x |-> N(1)])>>)]),
           D([type |-> S("connector"), from_point |-> D([x |-> N(1)]), to_point |-> S("b")]),
           D([type |-> S("image"), celebrity_name |-> S("Lionel Messi")]),
           D([type |-> S("image"), anatomy_term |-> S("heart")]),
           D([type |-> S("image"), src |-> S("http://x/y.png"), geography_term |-> S("Petra")]),
           D([type |-> S("image"), src |-> S(""), celebrity_name |-> S("Lionel Messi")]),
           D([type |-> S("image"), celebrity_name |-> S("Lionel Messi"), anatomy_term |-> S("heart"),
              geography_term |-> S("Petra")]),
           D([type |-> S("rect"), celebrity_name |-> S("Lionel Messi")]) }

\* raw payloads handed to normalize_spec
NormInputs ==
    RawPayloads
    \cup {D([elements |-> L(<<e>>)]) : e \in ElementInputs}
    \cup {D([visualType |-> S("timeline"),
             elements |-> L(<<D([type |-> S("circle")]), e, D([type |-> S("box")])>>)]) :
              e \in {D([type |-> S("image"), celebrity_name |-> S("Lionel Messi")]),
                     D([type |-> S("image"), anatomy_term |-> S("heart")])}}
    \cup { D([visualType |-> S("mathematical"), expressions |-> S("x")]),
           D([visualType |-> S("mathematical"), expression |-> S("")]),
           D([visualType |-> S("mathematical_interactive"), expression |-> S("x+1")]),
           D([visualType |-> S("mathematical_interactive"), elements |-> L(<<D([type |-> S("oval")])>>)]),
           D([visualType |-> S("plotly"), plotlySpec |-> None]),
           D([visualType |-> S("plotly"), elements |-> L(<<D([type |-> S("rect")])>>)]),
           D([visualType |-> S("plotly"), plotlySpec |-> D([data |-> L(<<>>)]), elements |-> N(5)]),
           D([visualType |-> S("mathematical"), expression |-> S("x"), elements |-> B(TRUE)]),
           D([elements |-> N(5)]),
           D([elements |-> S("circle")]),
           D([elements |-> D([type |-> S("circle")])]),
           D([elements |-> L(<<None>>)]),
           D([elements |-> L(<<D([type |-> S("circle")]), L(<<>>)>>)]) }

NormInit ==
    /\ raw_spec \in NormInputs
    /\ wiki_found \in SUBSET WikiNames
    /\ norm_out = <<>>
    /\ renorm_out = <<>>
    /\ raw_after = <<>>
    /\ pc = "normalize"
    /\ command = ""
    /\ AI_IMAGE_FIRST = FALSE
    /\ AI_DISABLE_RULES = FALSE
    /\ AI_REQUIRE = FALSE
    /\ OPENAI_API_KEY = FALSE
    /\ IMAGE_MODEL = "gpt-image-1"
    /\ tier_config = get_tier_config("GUEST")
    /\ last_error = <<>>
    /\ routing_hint = <<>>
    /\ calls = <<>>
    /\ result = <<>>
    /\ raised = <<>>
    /\ intent = <<>>
    /\ rule_out = <<>>
    /\ fallback_out = <<>>
    /\ EndpointIdle

\* norm = normalize_spec(raw)
Normalize ==
    /\ pc = "normalize"
    /\ norm_out' = <<normalize_spec(raw_spec, wiki_found)>>
    /\ raw_after' = <<ArgumentAfter(raw_spec)>>
    /\ calls' = calls \o NormalizeLookups(raw_spec, wiki_found)
    /\ pc' = "normalized"
    /\ UNCHANGED <<raw_spec, wiki_found, renorm_out, command, env, units, last_error,
                   routing_hint, result, raised>>

\* normalize_spec(norm), when the first call returned
Renormalize ==
    /\ pc = "normalized"
    /\ norm_out[1].exc = ""
    /\ renorm_out' = <<normalize_spec(norm_out[1].val, wiki_found)>>
    /\ calls' = calls \o NormalizeLookups(norm_out[1].val, wiki_found)
    /\ pc' = "renormalized"
    /\ UNCHANGED <<raw_spec, wiki_found, norm_out, raw_after, command, env, units,
                   last_error, routing_hint, result, raised>>

NormNext == Normalize \/ Renormalize

NormSpec == NormInit /\ [][NormNext]_vars

-----------------------------------------------------------------------------
(* services/llm_service.py: the routing classifier of interpret_with_source on its own *)

\* words the commands handed to the classifier are made of
RouteWords ==
    {"Compare", "vs", "difference between", "between", "process", "sequence", "login",
     "tree", "trend", "network", "circle"}

RouteCommands == {Join(ws) : ws \in UNION {[1..n -> RouteWords] : n \in 0..MaxWords}}

\* everything but the command is at rest
Idle ==
    /\ AI_IMAGE_FIRST = FALSE
    /\ AI_DISABLE_RULES = FALSE
    /\ AI_REQUIRE = FALSE
    /\ OPENAI_API_KEY = FALSE
    /\ IMAGE_MODEL = "gpt-image-1"
    /\ tier_config = get_tier_config("GUEST")
    /\ last_error = <<>>
    /\ routing_hint = <<>>
    /\ calls = <<>>
    /\ result = <<>>
    /\ raised = <<>>
    /\ raw_spec = None
    /\ wiki_found = {}
    /\ norm_out = <<>>
    /\ renorm_out = <<>>
    /\ raw_after = <<>>

RouteInit ==
    /\ command \in RouteCommands
    /\ pc = "route"
    /\ intent = <<>>
    /\ rule_out = <<>>
    /\ fallback_out = <<>>
    /\ EndpointIdle
    /\ Idle

\* is_comparison = ... down to routing_hint = "network": the locals of the routing
\* block and the hint chosen from them
Route ==
    /\ pc = "route"
    /\ intent' = <<[is_comparison |-> is_comparison(command),
                    is_workflow |-> is_workflow(command),
                    is_hierarchy |-> is_hierarchy(command),
                    is_network |-> is_network(command),
                    is_timeseries |-> is_timeseries(command),
                    use_mermaid |-> use_mermaid(command)]>>
    /\ routing_hint' = RoutingHint(command)
    /\ pc' = "routed"
    /\ UNCHANGED <<normalizer, command, env, last_error, calls, result, raised, rule_out, fallback_out,
                   endpoint>>

RouteNext == Route

RouteSpec == RouteInit /\ [][RouteNext]_vars

-----------------------------------------------------------------------------
(* services/rule_interpreter.py: try_plot_function on its own *)

\* what the commands handed to the handler are made of: a lead, the equation sign
\* as written, an expression and a tail
PlotLeads == {"", "plot ", "Heatmap display "}
PlotEquals == {"y = ", "Y=", "y  =  "}
PlotExprs == ValidExprs \cup {"X^2", " 2*x ", "x +", "(x", "x y"}
PlotTails == {"", ", in red", "; scatter", " as a histogram", " Line Chart", " as a chart"}

PlotCommands ==
    {l \o q \o e \o t : l \in PlotLeads, q \in PlotEquals, e \in PlotExprs, t \in PlotTails}
    \cup {l \o e \o t : l \in PlotLeads, e \in PlotExprs, t \in PlotTails}

PlotInit ==
    /\ command \in PlotCommands
    /\ pc = "plot"
    /\ intent = <<>>
    /\ rule_out = <<>>
    /\ fallback_out = <<>>
    /\ EndpointIdle
    /\ Idle

\* try_plot_function(command)
Plot ==
    /\ pc = "plot"
    /\ rule_out' = <<try_plot_function(command)>>
    /\ pc' = "plotted"
    /\ UNCHANGED <<normalizer, command, env, last_error, routing_hint, calls, result,
                   raised, intent, fallback_out, endpoint>>

PlotNext == Plot

PlotSpec == PlotInit /\ [][PlotNext]_vars

-----------------------------------------------------------------------------
(* services/llm_service.py: the naive fallback on one command *)

SubjectLeads ==
    {"", "draw ", "Draw ", "show me ", "show ", "visualize ", "render ", "make ", "create ",
     "please draw ", "draw draw "}

SubjectArticles == {"", "a ", "an ", "the "}

SubjectTails ==
    {"", "apple", "network", "tree.", "heart", "moon", "Eiffel tower", "banana?", "red circle",
     "zebra crossing with pedestrians waiting at the kerb for the lights to change"}

SubjectCommands ==
    {lead \o article \o tail :
        lead \in SubjectLeads, article \in SubjectArticles, tail \in SubjectTails}

SubjectInit ==
    /\ command \in SubjectCommands
    /\ pc = "fallback"
    /\ intent = <<>>
    /\ rule_out = <<>>
    /\ fallback_out = <<>>
    /\ EndpointIdle
    /\ Idle

\* fallback_naive(command), with the subject extract_subject(command) gives
NaiveFallback ==
    /\ pc = "fallback"
    /\ fallback_out' = <<[subject |-> extract_subject(command), spec |-> fallback_naive(command)]>>
    /\ pc' = "fell back"
    /\ UNCHANGED <<normalizer, command, env, last_error, routing_hint, calls, result,
                   raised, intent, rule_out, endpoint>>

SubjectNext == NaiveFallback

SubjectSpec == SubjectInit /\ [][SubjectNext]_vars

-----------------------------------------------------------------------------
(* services/visualize.py and services/subscription_service.py: concurrent requests
   of one user at the visualize endpoint. Each request runs in its own thread with
   its own database session and its own copy of the user's row. *)

\* number of requests of the user in flight
MaxRequests == 2

Requests == 1..MaxRequests

\* TIER_LIMITS["FREE"]["ai_requests_per_day"]
FreeDaily == 20

\* what interpret_with_source hands back to the endpoint: a triple, or an exception
InterpretOutcomes(require) ==
    {[k |-> "raise", spec |-> None, source |-> "", err |-> <<>>]}
    \cup {[k |-> "return", spec |-> sp, source |-> so, err |-> <<>>] :
              sp \in {D([elements |-> L(<<Circle(100, 100, 60, "#ff0000")>>)]),
                      D([visualType |-> S("mathematical"),
                         elements |-> L(<<D([x |-> N(1)])>>)])},
              so \in {"rules", "llm"}}
    \cup (IF require
          THEN {[k |-> "return", spec |-> None, source |-> "error", err |-> e] :
                    e \in {<<"Connection error.">>, <<"AI unavailable">>}}
          ELSE {[k |-> "return", spec |-> Fallback["circle"], source |-> "fallback",
                 err |-> <<"Connection error.">>]})

\* VisualSpec.model_validate(spec_dict) accepts the spec: every element is an object
\* with a text type
Validates(spec) ==
    /\ spec.t = "dict"
    /\ Has(spec, "elements") /\ Get(spec, "elements") # None
        => /\ Get(spec, "elements").t = "list"
           /\ \A i \in 1..Len(Get(spec, "elements").v) :
                  LET e == Get(spec, "elements").v[i]
                  IN  e.t = "dict" /\ Has(e, "type") /\ Get(e, "type").t = "str"

\* a request nobody has started to serve
Fresh ==
    [pc |-> "start", user |-> <<>>, dirty |-> FALSE, out |-> <<>>,
     status |-> 0, detail |-> "", stored |-> 0, wrote |-> FALSE,
     \* history: the count the session held at the admission check, and the count
     \* of the row at that moment
     seen |-> <<>>, at_admit |-> <<>>]

VisualizeInit ==
    /\ row \in {[usage_count |-> n, due |-> d, near |-> d \/ m] :
                    n \in {0, FreeDaily - 1, FreeDaily}, d \in BOOLEAN, m \in BOOLEAN}
    /\ chat = 0
    /\ limit \in {FreeDaily, -1}
    /\ req = [r \in Requests |-> Fresh]
    /\ AI_REQUIRE \in BOOLEAN
    /\ command = "circle"
    /\ pc = "visualize"
    /\ intent = <<>>
    /\ rule_out = <<>>
    /\ fallback_out = <<>>
    /\ AI_IMAGE_FIRST = FALSE
    /\ AI_DISABLE_RULES = FALSE
    /\ OPENAI_API_KEY = FALSE
    /\ IMAGE_MODEL = "gpt-image-1"
    /\ tier_config = get_tier_config("FREE")
    /\ last_error = <<>>
    /\ routing_hint = <<>>
    /\ calls = <<>>
    /\ result = <<>>
    /\ raised = <<>>
    /\ raw_spec = None
    /\ wiki_found = {}
    /\ norm_out = <<>>
    /\ renorm_out = <<>>
    /\ raw_after = <<>>

\* what the actions of the endpoint leave alone
OutsideEndpoint ==
    <<normalizer, command, env, pc, last_error, routing_hint, calls, result, raised,
      intent, rule_out, fallback_out, limit>>

\* the response leaves: the session is closed, what was not committed is gone
Answer(r, code, detail) ==
    [req[r] EXCEPT !.pc = "done", !.status = code, !.detail = detail]

\* db.commit() of a session holding user u: the columns the session changed are
\* written to the row
Written(u, dirty) ==
    [usage_count |-> u.usage_count,
     due |-> IF dirty THEN u.due ELSE row.due,
     near |-> IF dirty THEN u.near ELSE row.near]

\* get_current_user: db.query(User).filter(User.id == user_id).first()
Load(r) ==
    /\ req[r].pc = "start"
    /\ req' = [req EXCEPT ![r].pc = "admit", ![r].user = <<row>>]
    /\ UNCHANGED <<row, chat, OutsideEndpoint>>

\* check_usage_limit(user, db) on the session's copy of the user
check_usage_limit(u) ==
    LET reset == IF u.due THEN [usage_count |-> 0, due |-> FALSE, near |-> FALSE] ELSE u
    IN  [user |-> reset,
         dirty |-> u.due,
         can_use |-> limit = -1 \/ reset.usage_count < limit]

\* the length test and the admission check of visualize
Admit(r) ==
    /\ req[r].pc = "admit"
    /\ \E too_long \in BOOLEAN :
         IF too_long
         THEN req' = [req EXCEPT ![r] = Answer(r, 400, "Command too long (max 2000 characters)")]
         ELSE \E c \in {check_usage_limit(req[r].user[1])} :
                req' = [req EXCEPT ![r] =
                          IF c.can_use
                          THEN [req[r] EXCEPT !.pc = "refresh", !.user = <<c.user>>,
                                              !.dirty = c.dirty,
                                              !.seen = <<c.user.usage_count>>,
                                              !.at_admit = <<row.usage_count>>]
                          ELSE [Answer(r, 429, "Daily AI quota exceeded.")
                                   EXCEPT !.seen = <<c.user.usage_count>>,
                                          !.at_admit = <<row.usage_count>>]]
    /\ UNCHANGED <<row, chat, OutsideEndpoint>>

\* if user.usage_count == 0 and utcnow() >= usage_reset_date - 60 s: db.commit(), or
\* db.rollback() when it fails; either way the session reads the row again at the
\* next access to the user
Refresh(r) ==
    /\ req[r].pc = "refresh"
    /\ IF req[r].user[1].usage_count = 0 /\ req[r].user[1].near
       THEN \E ok \in BOOLEAN :
              /\ row' = IF ok THEN Written(req[r].user[1], req[r].dirty) ELSE row
              /\ req' = [req EXCEPT ![r].pc = "interpret", ![r].user = <<row'>>,
                                     ![r].dirty = FALSE,
                                     ![r].wrote = ok /\ req[r].dirty]
       ELSE /\ req' = [req EXCEPT ![r].pc = "interpret"]
            /\ row' = row
    /\ UNCHANGED <<chat, OutsideEndpoint>>

\* spec_dict, source, err = interpret_with_source(...) down to model_validate
Interpret(r) ==
    /\ req[r].pc = "interpret"
    /\ \E o \in InterpretOutcomes(AI_REQUIRE) :
         req' = [req EXCEPT ![r] =
                   [(IF o.k = "raise" THEN Answer(r, 500, "Exception")
                     ELSE IF o.spec.t # "dict" THEN Answer(r, 500, "AttributeError")
                     ELSE IF o.source = "error" \/ (AI_REQUIRE /\ o.source = "fallback")
                     THEN Answer(r, 502, "AI unavailable: "
                                         \o (IF o.err # <<>> /\ o.err[1] # "" THEN o.err[1]
                                             ELSE "unknown error"))
                     ELSE IF ~Validates(o.spec) THEN Answer(r, 500, "ValidationError")
                     ELSE [req[r] EXCEPT !.pc = "save"])
                    EXCEPT !.out = <<o>>]]
    /\ UNCHANGED <<row, chat, OutsideEndpoint>>

\* the two chat messages, increment_usage and the commit, with the quota tested
\* again on the row and the count raised on the row itself: a variant against which
\* C24_AdmittedIsServed is tested
SaveRechecking(r) ==
    /\ req[r].pc = "save"
    /\ IF limit # -1 /\ row.usage_count >= limit
       THEN /\ req' = [req EXCEPT ![r] = Answer(r, 429, "Daily AI quota exceeded.")]
            /\ UNCHANGED <<row, chat>>
       ELSE /\ row' = [row EXCEPT !.usage_count = row.usage_count + 1]
            /\ chat' = chat + 2
            /\ req' = [req EXCEPT ![r] = [Answer(r, 200, "") EXCEPT !.stored = 2, !.wrote = TRUE]]
    /\ UNCHANGED OutsideEndpoint

\* the two chat messages, increment_usage(user, db) and the commit; a failed commit
\* is rolled back and the response is sent all the same
Save(r) ==
    /\ req[r].pc = "save"
    /\ \E ok \in BOOLEAN :
         LET u == [req[r].user[1] EXCEPT !.usage_count = req[r].user[1].usage_count + 1]
         IN  /\ row' = IF ok THEN Written(u, req[r].dirty) ELSE row
             /\ chat' = IF ok THEN chat + 2 ELSE chat
             /\ req' = [req EXCEPT ![r] =
                          [Answer(r, 200, "") EXCEPT !.user = <<u>>,
                                                     !.stored = IF ok THEN 2 ELSE 0,
                                                     !.wrote = ok]]
    /\ UNCHANGED OutsideEndpoint

VisualizeNext ==
    \E r \in Requests : Load(r) \/ Admit(r) \/ Refresh(r) \/ Interpret(r) \/ Save(r)

VisualizeSpec == VisualizeInit /\ [][VisualizeNext]_vars

-----------------------------------------------------------------------------
(* Properties of interpret_with_source *)

\* the triple interpret_with_source returned, once it has returned
Res == result[1]

\* number of events ev in the history of the run
Count(ev) == Cardinality({i \in 1..Len(calls) : calls[i] = ev})

\* the positions of the events of evs in the history of the run
Positions(evs) == {i \in 1..Len(calls) : calls[i] \in evs}

\* the run got past the first rule-engine pass without returning or raising there
PastStep1 ==
    \/ pc \in {"image", "llm", "rules_retry", "final"}
    \/ pc = "done" /\ calls # <<"interpret_by_rules">>

\* a spec carries the payload its tag declares
HasPayload(spec, tag) ==
    IF Truthy(Get(spec, "nodes")) THEN TRUE
    ELSE IF EqStr(tag, "plotly") THEN Get(spec, "plotlySpec").t = "dict" /\ Truthy(Get(spec, "plotlySpec"))
    ELSE IF EqStr(tag, "mermaid") THEN Get(spec, "mermaidCode").t = "str" /\ Truthy(Get(spec, "mermaidCode"))
    ELSE IF EqStr(tag, "mathematical") \/ EqStr(tag, "mathematical_interactive")
    THEN Truthy(Get(spec, "expression")) \/ Truthy(Get(spec, "expressions"))
    ELSE Get(spec, "elements").t = "list" /\ Truthy(Get(spec, "elements"))

\* C1: every spec returned with a provenance other than error carries a non-empty
\* payload for its declared tag (chart object, diagram text, expression(s), node
\* list, or element list).
C1_NonEmptyPayload ==
    (pc = "done" /\ Res.source # "error")
        => /\ Res.spec.t = "dict"
           /\ HasPayload(Res.spec, GetOr(Res.spec, "visualType", S("conceptual")))

\* C2: in every returned triple the provenance is one of the six tags, the spec is
\* none exactly when the provenance is error, error occurs only with AI_REQUIRE
\* on and fallback only with AI_REQUIRE off.
C2_ResultContract ==
    pc = "done"
        => /\ Res.source \in {"rules", "mermaid", "image", "llm", "fallback", "error"}
           /\ (Res.spec.t = "null") <=> (Res.source = "error")
           /\ Res.source = "error" => AI_REQUIRE
           /\ Res.source = "fallback" => ~AI_REQUIRE

\* an error triple and nothing else has been returned under AI_REQUIRE
C2_ErrorReturned ==
    pc = "done" /\ Res.source = "error" /\ Res.spec.t = "null" /\ AI_REQUIRE

\* C3: no exception raised inside a rule handler, a backend call or the normalizer
\* leaves interpret_with_source.
C3_NoExceptionEscapes == pc # "raised" /\ raised = <<>>

C5_ErrorWhenAIRequired ==
    (pc = "done" /\ AI_REQUIRE /\ Count("call_openai_for_spec") = 1
                 /\ Res.source \notin {"mermaid", "image", "llm"})
        => /\ Res.source = "error"
           /\ Res.spec.t = "null"
           /\ Res.error = last_error

IsEquationCommand(cmd) ==
    /\ StartsWith(Lower(Strip(cmd)), "y")
    /\ ~AnyIn(Lower(cmd), chart_type_keywords)
    /\ EquationMatch(cmd) # <<>>
    /\ PlotMatched(EquationMatch(cmd)).val.t = "dict"

EquationCommands == {c \in Commands : IsEquationCommand(c)}

\* elements are exactly two axis lines and one polyline of 120 points
IsFunctionPlot(spec) ==
    /\ spec.t = "dict"
    /\ Get(spec, "elements").t = "list"
    /\ Len(Get(spec, "elements").v) = 3
    /\ Get(spec, "elements").v[1] = AxisX
    /\ Get(spec, "elements").v[2] = AxisY
    /\ EqStr(Get(spec, "elements").v[3].v.type, "polyline")
    /\ Len(Get(spec, "elements").v[3].v.points.v) = 120

\* C7: for a command y = <expr> without chart-type keyword, and rules enabled, the
\* result has provenance rules with two axis lines and one 120-point polyline,
\* and no request is made to any backend during the run.
C7_EquationByRulesOnly ==
    (command \in EquationCommands /\ ~AI_DISABLE_RULES)
        => /\ Positions({"mermaid_request", "image_request", "llm_request"}) = {}
           /\ pc = "done" => Res.source = "rules" /\ IsFunctionPlot(Res.spec)

C9_NoImageForLogo ==
    Routing[command].is_logo_request
        => Count("try_generate_image_spec") = 0 /\ Count("image_request") = 0

\* a logo command passed the image step with the tier permitting images, an
\* image-needed keyword present and the image-first policy on
C9_LogoPastImageStep ==
    /\ Routing[command].is_logo_request
    /\ Routing[command].needs_ai_image
    /\ tier_config.enable_images
    /\ AI_IMAGE_FIRST
    /\ OPENAI_API_KEY
    /\ pc \in {"llm", "rules_retry", "final", "done"}

\* the diagram attempt has been made, and before any image or primary model call
MermaidAttemptedFirst ==
    /\ Count("try_generate_mermaid_diagram") = 1
    /\ \A i \in Positions({"try_generate_mermaid_diagram"}) :
           \A j \in Positions({"try_generate_image_spec", "image_request",
                               "call_openai_for_spec", "llm_request"}) : i < j

\* a mermaid result is (spec, mermaid, none)
MermaidResult ==
    (pc = "done" /\ Res.source = "mermaid")
        => Res.error = <<>> /\ EqStr(Get(Res.spec, "visualType"), "mermaid")

\* C10 as the spec words it: whenever the sequential-diagram flag is set and
\* step 1 did not return, the diagram synthesis is attempted, before any image
\* or primary model call, and its success is returned as (spec, mermaid, none).
C10_MermaidFirst ==
    (Routing[command].use_mermaid /\ PastStep1) => MermaidAttemptedFirst /\ MermaidResult

\* C10: the same for commands that match no math-like keyword.
C10_MermaidFirstUnlessMath ==
    (Routing[command].use_mermaid /\ ~Routing[command].is_math /\ PastStep1)
        => MermaidAttemptedFirst /\ MermaidResult

\* the diagram attempt failed and the run went on to the primary model
C10_MermaidThenModel ==
    /\ Routing[command].use_mermaid
    /\ ~Routing[command].is_math
    /\ Count("mermaid_request") = 1
    /\ Count("llm_request") = 1

\* the colour names the lowered command contains
NamedColors == {color_names[i] : i \in {j \in 1..Len(color_names) : Contains(Lower(command), color_names[j])}}

\* the run is over, the primary model was called and could not be reached, no rule
\* handler matches the command and AI is not required
UnreachableNoRule ==
    /\ pc = "done"
    /\ ~AI_REQUIRE
    /\ Count("call_openai_for_spec") = 1
    /\ last_error \in {<<"Connection error.">>, <<"Missing OPENAI_API_KEY">>}
    /\ RuleResult[command] = Ret(None)

\* C11: for a command no rule handler matches, with the primary model backend
\* unreachable and AI not required, the provenance is fallback; if the command
\* contains "circle" the spec is exactly one circle element of radius 60 whose
\* colour is the colour name the command contains, the default blue when it
\* names none.
C11_FallbackCircle ==
    UnreachableNoRule
        => /\ Res.source = "fallback"
           /\ Contains(Lower(command), "circle")
                => /\ Len(Get(Res.spec, "elements").v) = 1
                   /\ EqStr(Get(Get(Res.spec, "elements").v[1], "type"), "circle")
                   /\ Get(Get(Res.spec, "elements").v[1], "radius") = N(60)
                   /\ LET color == Get(Get(Res.spec, "elements").v[1], "color")
                      IN  IF NamedColors = {} THEN color = S("#1e90ff")
                          ELSE color \in {S(c) : c \in NamedColors}

\* "red circle" went through the rule retry and came back as the fallback
C11_RedCircleFallback ==
    /\ UnreachableNoRule
    /\ command = "red circle"
    /\ ~AI_DISABLE_RULES
    /\ last_error = <<"Connection error.">>
    /\ Count("interpret_by_rules") = 1

-----------------------------------------------------------------------------
(* Properties of normalize_spec *)

\* the outcome of normalize_spec(raw_spec), once it has been called
Norm == norm_out[1]

\* the outcome of the second application
Renorm == renorm_out[1]

\* C12: normalize_spec is total: for every raw payload (a JSON object), also one
\* whose elements field is no list of records or whose element or point entries
\* are no records, it returns a spec and raises no exception.
C12_NormalizeTotal ==
    (norm_out # <<>> /\ raw_spec.t = "dict") => Norm.exc = "" /\ Norm.val.t = "dict"

\* C13: normalization is idempotent: with the resolver answering the same both
\* times, normalize_spec(normalize_spec(x)) returns, and returns normalize_spec(x),
\* also for payloads downgraded to conceptual.
C13_Idempotent ==
    renorm_out # <<>> => Renorm.exc = "" /\ Renorm.val = Norm.val

\* the raw payload is an object tagged tag
Tagged(tag) == raw_spec.t = "dict" /\ EqStr(GetOr(raw_spec, "visualType", S("conceptual")), tag)

\* a conceptual spec with an empty element list
EmptyConceptual == D([visualType |-> S("conceptual"), elements |-> L(<<>>)])

HasExpressionList == Has(raw_spec, "expressions") /\ raw_spec.v["expressions"].t = "list"

\* what a payload tagged tag that carries an expression list or an expression is
\* passed through as, the list winning
MathPassed(tag) ==
    IF HasExpressionList
    THEN D([visualType |-> S(tag), expressions |-> raw_spec.v["expressions"]])
    ELSE D([visualType |-> S(tag), expression |-> GetOr(raw_spec, "expression", S(""))])

OutElements ==
    IF Norm.exc = "" /\ Get(Norm.val, "elements").t = "list" THEN Get(Norm.val, "elements").v ELSE <<>>

\* the element list of the raw payload, <<>> when it has none
RawElements ==
    IF raw_spec.t = "dict" /\ Get(raw_spec, "elements").t = "list" THEN Get(raw_spec, "elements").v ELSE <<>>

\* the type texts that are folded into another one
Synonyms == {"rectangle", "box", "square", "pyramid", "oval", "arrow"}

\* an element of a returned spec has a folded type, an integer position and a colour
WellFormedElement(e) ==
    /\ e.t = "dict"
    /\ Get(e, "type").t = "str"
    /\ Get(e, "type").v \notin Synonyms
    /\ Get(e, "x").t = "int"
    /\ Get(e, "y").t = "int"
    /\ Truthy(Get(e, "color"))

\* a raw element names no colour under color, fill or backgroundColor
Colourless(e) ==
    e.t = "dict" /\ \A k \in {"color", "fill", "backgroundColor"} : ~Truthy(Get(e, k))

\* C16: for every raw payload, every element in the element list of the spec
\* normalize_spec returns has a type with the synonyms folded, an integer x and
\* y, and a colour, the default blue when the raw element has none of color,
\* fill, backgroundColor.
C16_ElementsWellFormed ==
    norm_out # <<>>
        => /\ \A i \in 1..Len(OutElements) : WellFormedElement(OutElements[i])
           /\ Len(OutElements) = Len(RawElements)
                => \A i \in 1..Len(OutElements) :
                       Colourless(RawElements[i]) => EqStr(Get(OutElements[i], "color"), "#1e90ff")

\* normalize_spec returned from its loop over the elements: the payload carries
\* none of the tags that are passed through
Looped ==
    /\ norm_out # <<>>
    /\ Norm.exc = ""
    /\ raw_spec.t = "dict"
    /\ \A tag \in {"plotly", "mermaid", "mathematical", "mathematical_interactive"} : ~Tagged(tag)

\* the type a raw element names, trimmed and in lower case
RawType(e) == Lower(Strip(Str(GetOr(e, "type", S("")))))

\* C17: a raw element of type square is normalized to an element of type rect
\* whose height equals its width, for every supplied size, width or height value.
C17_SquareIsSquare ==
    Looped
        => \A i \in 1..Len(RawElements) :
               RawType(RawElements[i]) = "square"
                   => /\ EqStr(Get(OutElements[i], "type"), "rect")
                      /\ Has(OutElements[i], "width")
                      /\ Has(OutElements[i], "height")
                      /\ Get(OutElements[i], "width") = Get(OutElements[i], "height")

\* the raw attributes read for a normalized size attribute, in the order of the code
SizeChain(attr) ==
    CASE attr = "radius" -> <<"radius", "r", "size">>
      [] attr = "width" -> <<"width", "w">>
      [] attr = "height" -> <<"height", "h">>

\* the value supplied for a size attribute: that of the first attribute of the
\* chain the raw element carries, None when it carries none
Supplied(e, attr) ==
    LET chain == SizeChain(attr)
        hits == {j \in 1..Len(chain) : Get(e, chain[j]).t # "null"}
    IN  IF hits = {} THEN None ELSE Get(e, chain[Min(hits)])

\* the per-type default of a size attribute, <<>> for a type without one
SizeDefault(t, attr) ==
    IF attr = "radius" THEN (IF t = "circle" THEN <<60>> ELSE <<>>)
    ELSE IF t \in {"rect", "triangle", "ellipse"} THEN (IF attr = "width" THEN <<180>> ELSE <<120>>)
    ELSE IF t = "line" THEN (IF attr = "width" THEN <<220>> ELSE <<0>>)
    ELSE <<>>

\* k is a nearest integer of the number f
Nearest(k, f) ==
    LET diff == k * f[2] - f[1]
    IN  2 * (IF diff < 0 THEN -diff ELSE diff) <= f[2]

\* element o carries for attr the nearest integer of the supplied value when
\* that value is coercible, else the default of its type, or nothing for a type
\* without default
SizeFollows(e, o, attr) ==
    LET v == Supplied(e, attr)
        f == ToFloat(v)
        dflt == SizeDefault(Get(o, "type").v, attr)
    IN  IF v.t # "null" /\ f.exc = ""
        THEN Get(o, attr).t = "int" /\ Nearest(Get(o, attr).v, f.val)
        ELSE IF dflt # <<>> THEN Get(o, attr) = N(dflt[1])
        ELSE ~Has(o, attr)

\* C18: normalized width, height and radius equal the nearest integer of the
\* supplied value whenever a coercible value is supplied, zero and negative
\* values included, and the per-type default (circle radius 60; rect, triangle,
\* ellipse 180 by 120; line 220 by 0) only when the value is absent or not
\* coercible. Elements of type square, whose size is rewritten first, are left
\* to C17.
C18_SizesCoerced ==
    Looped
        => \A i \in 1..Len(RawElements) :
               RawType(RawElements[i]) # "square"
                   => \A attr \in {"radius", "width", "height"} :
                          SizeFollows(RawElements[i], OutElements[i], attr)

\* the raw payload is an object without a passed-through tag whose elements
\* field is a list of records: the payloads the loop of normalize_spec is for
ElementPayload ==
    /\ raw_spec.t = "dict"
    /\ \A tag \in {"plotly", "mermaid", "mathematical", "mathematical_interactive"} : ~Tagged(tag)
    /\ Get(raw_spec, "elements").t = "list"
    /\ \A i \in 1..Len(RawElements) : RawElements[i].t = "dict"

\* the attributes of an image element that name a subject to look up
LookupKeys == {"celebrity_name", "anatomy_term", "geography_term"}

\* e is an image element with a lookup key and no explicit source, and the
\* resolver returns none for every subject it names
MissedLookup(e) ==
    /\ RawType(e) = "image"
    /\ ~Truthy(Get(e, "src"))
    /\ \E k \in LookupKeys : Truthy(Get(e, k))
    /\ \A k \in LookupKeys : Truthy(Get(e, k)) => Get(e, k).v \notin wiki_found

\* C19: when the resolver returns none for an image element that carries a
\* lookup key and no explicit source, normalize_spec raises nothing and its
\* output still holds that image element, at the same position of the list,
\* without a src field.
C19_LookupMissKeepsElement ==
    (norm_out # <<>> /\ ElementPayload)
        => \A i \in 1..Len(RawElements) :
               MissedLookup(RawElements[i])
                   => /\ Norm.exc = ""
                      /\ Len(OutElements) = Len(RawElements)
                      /\ EqStr(Get(OutElements[i], "type"), "image")
                      /\ ~Has(OutElements[i], "src")

\* a list of three elements whose second one is an image the resolver found
\* nothing for has been normalized
C19_MissInTheMiddle ==
    /\ norm_out # <<>>
    /\ ElementPayload
    /\ Len(RawElements) = 3
    /\ MissedLookup(RawElements[2])
    /\ EqStr(Get(RawElements[2], "celebrity_name"), "Lionel Messi")
    /\ Len(OutElements) = 3

-----------------------------------------------------------------------------
(* Properties of the nodes/links pass-through of interpret_with_source *)

\* the primary model was asked once and its reply parsed to an object
ModelReplied == Count("llm_request") = 1 /\ raw_spec.t = "dict"

\* the run returned the payload of the primary model as it came, with provenance llm
ReturnedRaw ==
    /\ pc = "done"
    /\ Res.source = "llm"
    /\ Res.error = <<>>
    /\ Res.spec = raw_spec

\* a run over a network command that returned or went on without calling the
\* primary model left at one of the steps before it
NetworkDefers ==
    (Routing[command].is_network /\ Count("call_openai_for_spec") = 0)
        => /\ pc \in {"rules_first", "mermaid", "image", "llm", "done", "raised"}
           /\ pc = "done" => Res.source \in {"rules", "mermaid", "image"}
           /\ pc = "raised" => calls = <<"interpret_by_rules">>

\* C20 as stated: a payload of the primary model in which nodes is present is
\* returned as it came, nodes and links untouched and no element normalized, with
\* provenance llm, also when links is empty; the network flag alone never ends the
\* run before the call of the primary model.
C20_NodesPresent ==
    /\ (ModelReplied /\ Has(raw_spec, "nodes")) => ReturnedRaw
    /\ NetworkDefers

\* C20: a payload of the primary model whose nodes is present and not empty is
\* returned as it came, nodes and links untouched and no element normalized, with
\* provenance llm, also when links is empty; the network flag alone never ends the
\* run before the call of the primary model.
C20_NodesPassThrough ==
    /\ (ModelReplied /\ Truthy(Get(raw_spec, "nodes"))) => ReturnedRaw
    /\ NetworkDefers

\* a network command got a single node, no link and an element of type square from
\* the primary model and returned them as they came
C20_SingleNodeReturned ==
    /\ Routing[command].is_network
    /\ ModelReplied
    /\ Get(raw_spec, "links") = L(<<>>)
    /\ Get(raw_spec, "elements") = L(<<D([type |-> S("square")])>>)
    /\ ReturnedRaw

\* C27: every element-list spec interpret_with_source returns went through
\* normalize_spec, whichever step produced it (rules, image, llm, fallback): it
\* carries a visualType tag and none of its elements has a type that
\* normalize_spec folds into another one, such as arrow.
C27_AllNormalized ==
    (pc = "done" /\ Res.spec.t = "dict" /\ Get(Res.spec, "elements").t = "list")
        => /\ Has(Res.spec, "visualType")
           /\ \A i \in 1..Len(Get(Res.spec, "elements").v) :
                LET e == Get(Res.spec, "elements").v[i]
                IN  (e.t = "dict" /\ Get(e, "type").t = "str")
                        => Lower(Strip(Get(e, "type").v)) \notin Synonyms

-----------------------------------------------------------------------------
(* Properties of the routing classifier *)

\* the routing locals, once computed
Flags == intent[1]

\* the keywords of kws the command contains, case ignored
Matched(kws) == {k \in kws : Contains(Lower(command), k)}

\* the hints in the order of their priority, each with its flag
HintOrder ==
    <<[hint |-> "comparison", set |-> Flags.is_comparison],
      [hint |-> "workflow", set |-> Flags.is_workflow],
      [hint |-> "hierarchy", set |-> Flags.is_hierarchy],
      [hint |-> "timeseries", set |-> Flags.is_timeseries],
      [hint |-> "network", set |-> Flags.is_network]>>

\* C21: the hint handed to the primary model is the one of the first flag set in
\* the order comparison, workflow, hierarchy, time series, network, and none when
\* no flag is set; the network flag is not set when the command contains a
\* comparison keyword, so a comparison command never gets the hint network.
C21_HintByPriority ==
    pc = "routed"
        => /\ \A i \in 1..5 :
                (HintOrder[i].set /\ \A j \in 1..(i - 1) : ~HintOrder[j].set)
                    => routing_hint = <<HintOrder[i].hint>>
           /\ (\A i \in 1..5 : ~HintOrder[i].set) => routing_hint = <<>>
           /\ Matched(comparison_keywords) # {}
                => ~Flags.is_network /\ routing_hint # <<"network">>

\* "difference between network" holds network keywords and a comparison keyword:
\* the network flag is not set and the hint is comparison
C21_ComparisonOverNetwork ==
    /\ pc = "routed"
    /\ Matched(network_keywords) = {"between", "network"}
    /\ Matched(comparison_keywords) = {"difference between"}
    /\ ~Flags.is_network
    /\ routing_hint = <<"comparison">>

\* "trend network" sets the time-series flag and the network flag: the hint is
\* timeseries
C21_TimeseriesOverNetwork ==
    /\ pc = "routed"
    /\ Flags.is_timeseries /\ Flags.is_network
    /\ routing_hint = <<"timeseries">>

\* C22 as stated: the sequential-diagram flag is set only when the command contains
\* a workflow keyword and, besides it, a separate sequential-process keyword; a
\* command whose only matched keyword is one workflow keyword never sets it.
C22_SeparateKeyword ==
    pc = "routed"
        => /\ Flags.use_mermaid
                => \E w \in Matched(workflow_keywords), m \in Matched(mermaid_keywords) : w # m
           /\ (Matched(workflow_keywords) # {}
               /\ Cardinality(Matched(workflow_keywords \cup mermaid_keywords)) = 1)
                => ~Flags.use_mermaid

\* C22: the sequential-diagram flag is set exactly when the command contains a
\* workflow keyword and a sequential-process keyword, which may be one and the same
\* word (sequence is on both lists); a command whose only matched keyword is one
\* workflow keyword other than sequence never sets it, and neither does a
\* sequential-process keyword without a workflow keyword.
C22_SequentialFlag ==
    pc = "routed"
        => /\ Flags.use_mermaid
                <=> Matched(workflow_keywords) # {} /\ Matched(mermaid_keywords) # {}
           /\ (\E w \in workflow_keywords \ {"sequence"} :
                    Matched(workflow_keywords \cup mermaid_keywords) = {w})
                => ~Flags.use_mermaid
           /\ Matched(workflow_keywords) = {} => ~Flags.use_mermaid

\* "sequence" alone, the only keyword of the command, sets the flag
C22_SequenceAlone ==
    /\ pc = "routed"
    /\ Matched(workflow_keywords \cup mermaid_keywords) = {"sequence"}
    /\ Flags.use_mermaid

-----------------------------------------------------------------------------
(* Properties of try_plot_function *)

\* what the handler did with the command
PlotOut == rule_out[1]

\* the command holds a `y = <expr>` pattern
HasEquation == EquationMatch(command) # <<>>

\* C23: for a command that holds a `y = <expr>` pattern and a chart-type keyword
\* (histogram, scatter, bar chart, pie chart, box plot, heatmap, sankey, line chart),
\* the explicit-equation handler returns null whatever the expression is.
C23_ChartTypeDefers ==
    (pc = "plotted" /\ HasEquation /\ Matched(chart_type_keywords) # {})
        => PlotOut = Ret(None)

\* "y = x**2; scatter" holds an equation the handler plots when the keyword is
\* not there, and is left alone
C23_PlottableLeftAlone ==
    /\ pc = "plotted"
    /\ command = "y = x**2; scatter"
    /\ PlotMatched(EquationMatch(command)).exc = ""
    /\ PlotMatched(EquationMatch(command)).val # None
    /\ PlotOut = Ret(None)

\* the expression the handler extracts from the command, parsed
ParsedExpr == _safe_parse_function(Strip(EquationMatch(command)[1]))

\* evaluating the parsed expression raises at one of the 120 sample points of
\* _poly_points(fn, -6, 6, n=120)
SampleFails ==
    /\ ParsedExpr.exc = ""
    /\ \E i \in 0..119 : EvalFn(ParsedExpr.val, -6 * 119 + 12 * i, 119).k = "err"

\* C26: if evaluating the extracted expression fails in the explicit-equation
\* handler, at parse time or at any of the sample points, the handler returns null;
\* and the handler raises nothing.
C26_EvalFailureIsNull ==
    pc = "plotted"
        => /\ PlotOut.exc = ""
           /\ (HasEquation /\ Matched(chart_type_keywords) = {}
               /\ (ParsedExpr.exc # "" \/ SampleFails))
                => PlotOut = Ret(None)

-----------------------------------------------------------------------------
(* Properties of the visualize endpoint *)

\* request r passed check_usage_limit on the count its own session held
Admitted(r) ==
    /\ req[r].seen # <<>>
    /\ limit = -1 \/ req[r].seen[1] < limit

\* interpret_with_source handed request r a spec the endpoint accepts
Interpreted(r) ==
    /\ req[r].out # <<>>
    /\ req[r].out[1].k = "return"
    /\ req[r].out[1].source \notin {"error"} \cup (IF AI_REQUIRE THEN {"fallback"} ELSE {})
    /\ Validates(req[r].out[1].spec)

\* C24: admission and the increment of the usage count are not one step. A request
\* is admitted on the count its own session read and nothing tests the quota again:
\* every admitted request whose interpretation succeeds is served, whatever the
\* row holds by then, and a request is refused with 429 only at its own admission
\* check. Hence two requests that both read a count one below the limit before
\* either has written are both served.
C24_AdmittedIsServed ==
    \A r \in Requests :
        req[r].pc = "done"
            => /\ (Admitted(r) /\ Interpreted(r)) => req[r].status = 200
               /\ req[r].status = 429 => req[r].seen # <<>> /\ ~Admitted(r) /\ req[r].out = <<>>

\* two requests of a user on the limited tier each passed the admission check on a
\* count of one below the limit while the row still held that count, and both were
\* served; the row counts one of them
C24_BothServedOnLastSlot ==
    /\ limit = FreeDaily
    /\ \A r \in {1, 2} :
          /\ req[r].pc = "done"
          /\ req[r].seen = <<FreeDaily - 1>>
          /\ req[r].at_admit = <<FreeDaily - 1>>
          /\ req[r].status = 200
    /\ row.usage_count = FreeDaily
    /\ chat = 4

\* C28: when interpret_with_source returns provenance error with a none spec, the
\* endpoint answers 502 "AI unavailable" with the diagnostic message, stores no
\* chat message and writes no usage count.
C28_ErrorAnswers502 ==
    \A r \in Requests :
        (/\ req[r].pc = "done"
         /\ req[r].out # <<>>
         /\ req[r].out[1].k = "return"
         /\ req[r].out[1].source = "error"
         /\ req[r].out[1].spec = None)
            => /\ req[r].status = 502
               /\ req[r].detail = "AI unavailable: " \o req[r].out[1].err[1]
               /\ req[r].stored = 0
               /\ ~req[r].wrote

-----------------------------------------------------------------------------
(* Properties of the image lookups of normalize_spec *)

\* the calls of the resolver made for the i-th raw element
LookupsFor(i) == {j \in 1..Len(calls) : calls[j].i = i}

\* the raw element carries a lookup key and no explicit source
NeedsResolution(e) ==
    /\ e.t = "dict"
    /\ ~Truthy(Get(e, "src"))
    /\ \E k \in LookupKeys : Truthy(Get(e, k))

\* C25 as stated: during one normalization the resolver is called at most once for
\* each element that carries a lookup key and no explicit source, never for
\* another element, so that the calls are no more than the elements that need
\* resolution.
C25_OncePerElement ==
    pc = "normalized"
        => /\ \A i \in 1..Len(RawElements) :
                /\ Cardinality(LookupsFor(i)) <= 1
                /\ LookupsFor(i) # {} => NeedsResolution(RawElements[i])
           /\ Len(calls) <= Cardinality({i \in 1..Len(RawElements) : NeedsResolution(RawElements[i])})

\* C25: during one normalization the resolver is called only for image elements
\* that carry a lookup key and no explicit source, and for such an element at most
\* once per lookup key it carries, in the order celebrity_name, anatomy_term,
\* geography_term, and no more once a lookup has found a picture; the calls are no
\* more than three times the elements that need resolution.
C25_OncePerKey ==
    pc = "normalized"
        => /\ \A j \in 1..Len(calls) :
                /\ calls[j].i \in 1..Len(RawElements)
                /\ NeedsResolution(RawElements[calls[j].i])
                /\ RawType(RawElements[calls[j].i]) = "image"
                /\ calls[j].name = Get(RawElements[calls[j].i], calls[j].key)
                /\ \A h \in 1..(j - 1) :
                      calls[h].i = calls[j].i
                          => /\ calls[h].key # calls[j].key
                             /\ calls[h].name.t = "str" => calls[h].name.v \notin wiki_found
           /\ \A j \in 1..(Len(calls) - 1) :
                \/ calls[j].i < calls[j + 1].i
                \/ /\ calls[j].i = calls[j + 1].i
                   /\ \E a, b \in 1..3 : /\ a < b
                                          /\ LookupKeyOrder[a] = calls[j].key
                                          /\ LookupKeyOrder[b] = calls[j + 1].key
           /\ Len(calls) <= 3 * Cardinality({i \in 1..Len(RawElements) :
                                                NeedsResolution(RawElements[i])})

\* an image element with three lookup keys and no source, none of which the
\* resolver finds: three calls for the one element
C25_ThreeLookupsForOne ==
    /\ pc = "normalized"
    /\ Len(RawElements) = 1
    /\ NeedsResolution(RawElements[1])
    /\ Len(calls) = 3
    /\ Norm.exc = ""
    /\ ~Has(Get(Norm.val, "elements").v[1], "src")

\* C29: normalize_spec leaves its argument as it was: after the call the raw
\* payload and every raw element in it are unchanged, whatever the type of the
\* element, square included.
C29_ArgumentUnchanged ==
    raw_after # <<>> => raw_after[1] = raw_spec

-----------------------------------------------------------------------------
(* Properties of the naive fallback under SubjectSpec *)

FallbackSubject == fallback_out[1].subject

\* the text without one leading article word
WithoutArticle(s) ==
    IF StartsWith(s, "a ") THEN SubSeq(s, 3, Len(s))
    ELSE IF StartsWith(s, "an ") THEN SubSeq(s, 4, Len(s))
    ELSE IF StartsWith(s, "the ") THEN SubSeq(s, 5, Len(s))
    ELSE s

\* the command without one leading imperative verb and one leading article
RestOf(cmd) ==
    LET s0 == Strip(cmd)
    IN  Strip(WithoutArticle(Strip(
            CutPrefix(s0, {i \in 1..Len(prefixes) : StartsWith(Lower(s0), prefixes[i])}))))

\* C30: extract_subject removes from the command one leading imperative verb and
\* one leading article and no other leading character of the subject, title-cases
\* the rest and caps it at 64 characters ("draw an apple" yields "Apple"); the
\* label card of the fallback is a background rect and a text element labelled
\* with that subject.
C30_SubjectKeepsLeadingChars ==
    fallback_out # <<>> =>
        /\ FallbackSubject = Capped(StripPunctuation(RestOf(command)))
        /\ command = "draw an apple" => FallbackSubject = "Apple"
        /\ Len(FallbackSubject) <= SubjectCap
        /\ (~AnyIn(Lower(command), {"circle", "rectangle", "rect", "box", "square", "triangle",
                                     "pyramid", "ellipse", "oval", "line"})
                => fallback_out[1].spec =
                     D([elements |-> L(<<Rect(N(140), N(120), N(280), N(140), "#e0e7ff"),
                                         Text(156, 136,
                                              IF FallbackSubject # "" THEN FallbackSubject ELSE "Item",
                                              "#111827")>>)]))

====
